---- MODULE Spec2Model ----
(***************************************************************************)
(* Model of the speech segmentation engine of realtime-audio-sdk:          *)
(* SileroVAD (src/src/vad/SileroVAD.ts) driven by AudioProcessor            *)
(* (src/src/core/RealtimeAudioSDK.ts, second half).                        *)
(*                                                                         *)
(* Representation choices                                                  *)
(*  - A Float32Array is a sequence of runs [lo, n]: n consecutive samples  *)
(*    of the captured stream starting at stream position lo.  Concat,      *)
(*    SliceFrom and Take compute set()/slice() on that representation.     *)
(*  - Timestamps are kept in milliseconds (the code's seconds x 1000), so  *)
(*    "(timestamp - speechStartTime) * 1000" is a plain difference.        *)
(*  - Probabilities are exact rationals [n, d] in percent: the code        *)
(*    averages the frame probabilities of a chunk.                         *)
(*  - The recurrent state tensor is <<k>> (k = number of oracle updates    *)
(*    since the zero state) or <<>> for null.                              *)
(***************************************************************************)
EXTENDS Integers, Sequences, FiniteSets, TLC

VARIABLES
  vad,              \* the SileroVAD instance: its private fields
  sileroVAD,        \* AudioProcessor.sileroVAD is defined
  processingQueue,  \* chunks enqueued and not yet handed to process()
  inflight,         \* process() invocations suspended at "await session.run"
  flushWaiters,     \* flushAsync() invocations suspended at the drain
  closing,          \* close() invocations suspended at "await session.release()"
  capture,          \* the capture side: chunk lengths it delivers, samples produced
  oracle,           \* the probabilities (percent) the oracle may answer in this run
  rta,              \* the RTA instance with its AudioCapture: fields and pending calls
  hist              \* observer's record of the run (not program state)

vars == <<vad, sileroVAD, processingQueue, inflight, flushWaiters, closing, capture, oracle, rta, hist>>

(***************************************************************************)
(* Bounds of the model.                                                    *)
(***************************************************************************)
MaxChunks == 3
MaxStreamChunks == 7
MaxMixedChunks == 4
MaxQueue == 2
MaxOps == 1
MaxFaultChunks == 4
MaxFaults == 1
MaxDirectChunks == 4
MaxListenerChunks == 5
MaxListeners == 2
MaxDrainChunks == 3
MaxCalls == 3
MaxEndChunks == 7
MaxSyncChunks == 3
MaxUnplugged == 4
MaxOpsChunks == 4
MaxPending == 2

(***************************************************************************)
(* Program constants.                                                      *)
(***************************************************************************)
frameSize == 512
SampleRate == 16000
AssumedFrameSamples == 320

(* Inputs: chunk lengths produced by the capture side (20 ms, 32 ms and    *)
(* 60 ms at 16 kHz) and the oracle's possible answers, in percent: below   *)
(* the negative threshold, between the thresholds, above the positive one. *)
ChunkSizes == {320, 512, 960}
MixedSizes == {16, 320, 512, 528, 1040}
Probs == {20, 27, 40}
(* The oracle's answer when session.run rejects. *)
Fail == 0 - 1

(* The configuration under test: the default thresholds with durations     *)
(* scaled down to a few frames.                                            *)
SmallConfig ==
  [positiveSpeechThreshold |-> 30, negativeSpeechThreshold |-> 25,
   silenceDuration |-> 64, preSpeechPadDuration |-> 32, minSpeechDuration |-> 64]

(***************************************************************************)
(* Float32Array as runs of stream positions.                               *)
(***************************************************************************)
EmptyArr == <<>>

RECURSIVE ArrLen(_)
ArrLen(a) == IF a = <<>> THEN 0 ELSE a[1].n + ArrLen(Tail(a))

Concat(a, b) ==
  IF a = <<>> THEN b
  ELSE IF b = <<>> THEN a
  ELSE LET la == a[Len(a)]
           fb == b[1]
       IN IF la.lo + la.n = fb.lo
          THEN SubSeq(a, 1, Len(a) - 1) \o <<[lo |-> la.lo, n |-> la.n + fb.n]>> \o Tail(b)
          ELSE a \o b

RECURSIVE SliceFrom(_, _)
SliceFrom(a, k) ==
  IF k <= 0 \/ a = <<>> THEN a
  ELSE IF a[1].n <= k THEN SliceFrom(Tail(a), k - a[1].n)
  ELSE <<[lo |-> a[1].lo + k, n |-> a[1].n - k]>> \o Tail(a)

RECURSIVE Take(_, _)
Take(a, k) ==
  IF k <= 0 \/ a = <<>> THEN <<>>
  ELSE IF a[1].n <= k THEN Concat(<<a[1]>>, Take(Tail(a), k - a[1].n))
  ELSE <<[lo |-> a[1].lo, n |-> k]>>

Slice(a, from, to) == Take(SliceFrom(a, from), to - from)

RECURSIVE ConcatAll(_)
ConcatAll(chunks) ==
  IF chunks = <<>> THEN EmptyArr ELSE Concat(chunks[1], ConcatAll(Tail(chunks)))

(* Array.prototype.slice(-k): the last k elements; slice(-0) is slice(0). *)
SliceLast(s, k) ==
  IF k = 0 \/ k >= Len(s) THEN s ELSE SubSeq(s, Len(s) - k + 1, Len(s))

(* Array.prototype.slice(i): the elements from 0-based index i on. *)
SliceIdx(s, i) == IF i >= Len(s) THEN <<>> ELSE SubSeq(s, i + 1, Len(s))

CeilDiv(a, b) == (a + b - 1) \div b
Max(a, b) == IF a >= b THEN a ELSE b

(***************************************************************************)
(* Probabilities: exact rationals in percent.                              *)
(***************************************************************************)
RECURSIVE GCD(_, _)
GCD(a, b) == IF b = 0 THEN a ELSE GCD(b, a % b)

Rat(num, den) ==
  LET g == GCD(num, den) IN
  IF g = 0 THEN [n |-> 0, d |-> 1] ELSE [n |-> num \div g, d |-> den \div g]

GT(p, threshold) == p.n > threshold * p.d
LT(p, threshold) == p.n < threshold * p.d

(***************************************************************************)
(* SileroVAD: the instance after `SileroVAD.create(config)` and after      *)
(* AudioProcessor.initialize() registered its handlers.  The field         *)
(* `listeners` are the handlers registered on the emitter, in the order of *)
(* registration: "ok" for a handler that returns, "throws" for one that    *)
(* throws.  `delivered` is what has been emitted to them, in order,        *)
(* `invoked[i]` how many times handler i was called, and `escaped` whether *)
(* an exception of a handler has left emit.  `results` counts the          *)
(* 'vad-result' events emitted and keeps the latest.                       *)
(***************************************************************************)
ZeroTensor == <<0>>
NullTensor == <<>>
ZeroProbability == [n |-> 0, d |-> 1]

NewSileroVAD(config) ==
  [session |-> TRUE, config |-> config, state |-> "silence",
   stateTensor |-> ZeroTensor,
   audioBuffer |-> <<>>,
   speechStartTime |-> 0, speechEndCandidateTime |-> 0,
   speechStartBufferIndex |-> 0,
   potentialSpeechDurationMs |-> 0, potentialSilenceDurationMs |-> 0,
   sampleBuffer |-> EmptyArr, lastProbability |-> ZeroProbability,
   lastTimestamp |-> 0,
   listeners |-> <<"ok">>, delivered |-> <<>>,
   invoked |-> <<0>>, escaped |-> FALSE,
   results |-> [n |-> 0, last |-> <<>>]]

(* `new SileroVAD(config)` without initialize(): no session, no tensor. *)
Constructed(config) ==
  [NewSileroVAD(config) EXCEPT !.session = FALSE, !.stateTensor = NullTensor]

(* Mutant: no try/catch around the handler call: the first handler that   *)
(* throws ends the forEach and its exception leaves emit.                  *)
emit_noCatch(v, eventData) ==
  LET throwers == {i \in DOMAIN v.listeners : v.listeners[i] = "throws"}
      stop == IF throwers = {} THEN Len(v.listeners)
              ELSE CHOOSE i \in throwers : \A j \in throwers : i <= j
  IN IF v.listeners # <<>>
     THEN [v EXCEPT !.delivered = Append(@, eventData),
                    !.invoked = [i \in DOMAIN @ |-> IF i <= stop THEN @[i] + 1 ELSE @[i]],
                    !.escaped = @ \/ throwers # {}]
     ELSE v

(* Listeners registered with once('speech-start', listener): one that     *)
(* returns and one that throws.  "off" stands for a wrapper that off() has *)
(* removed.                                                                *)
OnceKinds == {"once", "onceThrows"}

(* Whether emit calls the handler for this event. *)
Hears(kind, eventData) ==
  /\ kind # "off"
  /\ kind \in OnceKinds => eventData.type = "speech-start"

(* EventEmitter.once's onceWrapper: it calls the listener and then         *)
(* this.off(event, onceWrapper); a listener that throws leaves the wrapper *)
(* before off() is reached.                                                *)
onceWrapper(kind) == IF kind = "once" THEN "off" ELSE kind

(* EventEmitter.emit: every registered handler is called with the payload; *)
(* what a handler throws is caught and logged.                             *)
emit(v, eventData) ==
  IF v.listeners # <<>>
  THEN [v EXCEPT !.delivered = Append(@, eventData),
                 !.invoked = [i \in DOMAIN @ |->
                                IF Hears(v.listeners[i], eventData)
                                THEN @[i] + 1 ELSE @[i]],
                 !.listeners = [i \in DOMAIN @ |->
                                  IF Hears(@[i], eventData)
                                  THEN onceWrapper(@[i]) ELSE @[i]]]
  ELSE v

(* The handlers are registered on a fresh emitter. *)
on(v, handlers) ==
  [v EXCEPT !.listeners = handlers, !.invoked = [i \in DOMAIN handlers |-> 0]]

resetStates(v) == [v EXCEPT !.stateTensor = ZeroTensor]

(* SileroVAD.initialize(): the session is created, the tensor zeroed. *)
initialize(v) == resetStates([v EXCEPT !.session = TRUE])

resetToSilence(v) ==
  [v EXCEPT !.state = "silence", !.speechStartTime = 0,
            !.speechEndCandidateTime = 0, !.potentialSpeechDurationMs = 0,
            !.potentialSilenceDurationMs = 0, !.speechStartBufferIndex = 0]

PrePadSamples(v) == (v.config.preSpeechPadDuration * SampleRate) \div 1000

calculateSpeechStartBufferIndex(v) ==
  IF Len(v.audioBuffer) = 0 THEN 0
  ELSE LET last == ArrLen(v.audioBuffer[Len(v.audioBuffer)])
           lastChunkLength == IF last = 0 THEN frameSize ELSE last
           prePadFrames == CeilDiv(PrePadSamples(v), Max(1, lastChunkLength))
       IN Max(0, Len(v.audioBuffer) - prePadFrames)

confirmSpeechStart(v, timestamp, probability) ==
  LET v1 == [v EXCEPT !.state = "speaking", !.potentialSpeechDurationMs = 0,
                      !.potentialSilenceDurationMs = 0,
                      !.speechEndCandidateTime = 0,
                      !.speechStartBufferIndex = calculateSpeechStartBufferIndex(v)]
  IN emit(v1, [type |-> "speech-start", isSpeech |-> TRUE,
               probability |-> probability, timestamp |-> timestamp,
               segment |-> <<>>])

createSpeechSegment(v, endTime) ==
  LET segmentData == SliceIdx(v.audioBuffer, v.speechStartBufferIndex)
      audioData == ConcatAll(segmentData)
      totalLength == ArrLen(audioData)
      durationMs == (totalLength * 1000) \div SampleRate
  IN [start |-> Max(0, endTime - durationMs), end |-> endTime,
      duration |-> durationMs, audioData |-> audioData]

(* Mutant: a segment only when the duration exceeds minSpeechDuration. *)
endSpeech_strict(v, timestamp, probability) ==
  LET speechDurationMs == timestamp - v.speechStartTime
      segment == IF speechDurationMs > v.config.minSpeechDuration
                 THEN <<createSpeechSegment(v, timestamp)>> ELSE <<>>
      v1 == emit(v, [type |-> "speech-end", isSpeech |-> FALSE,
                     probability |-> probability, timestamp |-> timestamp,
                     segment |-> segment])
      v2 == resetToSilence(v1)
      prePadFrames == CeilDiv(PrePadSamples(v), AssumedFrameSamples)
      maxBufferFrames == prePadFrames * 2
  IN IF Len(v2.audioBuffer) > maxBufferFrames
     THEN [v2 EXCEPT !.audioBuffer = SliceLast(@, maxBufferFrames)]
     ELSE v2

endSpeech(v, timestamp, probability) ==
  LET speechDurationMs == timestamp - v.speechStartTime
      segment == IF speechDurationMs >= v.config.minSpeechDuration
                 THEN <<createSpeechSegment(v, timestamp)>> ELSE <<>>
      v1 == emit(v, [type |-> "speech-end", isSpeech |-> FALSE,
                     probability |-> probability, timestamp |-> timestamp,
                     segment |-> segment])
      v2 == resetToSilence(v1)
      prePadFrames == CeilDiv(PrePadSamples(v), AssumedFrameSamples)
      maxBufferFrames == prePadFrames * 2
  IN IF Len(v2.audioBuffer) > maxBufferFrames
     THEN [v2 EXCEPT !.audioBuffer = SliceLast(@, maxBufferFrames)]
     ELSE v2

FrameDurationMs == (frameSize * 1000) \div SampleRate

(* updateVADState, one operator per case of its switch. *)
onSilence(v, probability, timestamp, durationMs) ==
  IF GT(probability, v.config.positiveSpeechThreshold)
  THEN [v EXCEPT !.state = "potential_start",
                 !.speechStartTime = timestamp,
                 !.potentialSpeechDurationMs = durationMs,
                 !.potentialSilenceDurationMs = 0]
  ELSE v

onPotentialStart(v, probability, timestamp, durationMs) ==
  IF GT(probability, v.config.positiveSpeechThreshold)
  THEN LET v1 == [v EXCEPT !.potentialSpeechDurationMs = @ + durationMs]
       IN IF v1.potentialSpeechDurationMs >= v.config.minSpeechDuration
          THEN confirmSpeechStart(v1, timestamp, probability)
          ELSE v1
  ELSE IF LT(probability, v.config.negativeSpeechThreshold)
  THEN resetToSilence(v)
  ELSE v

onSpeaking(v, probability, timestamp, durationMs) ==
  IF LT(probability, v.config.negativeSpeechThreshold)
  THEN [v EXCEPT !.state = "potential_end",
                 !.potentialSilenceDurationMs = durationMs,
                 !.speechEndCandidateTime = timestamp]
  ELSE [v EXCEPT !.potentialSilenceDurationMs = 0,
                 !.speechEndCandidateTime = 0]

(* Mutant: speech resumes as soon as the probability is not below the     *)
(* negative threshold.                                                     *)
onPotentialEnd_resumeEarly(v, probability, timestamp, durationMs) ==
  IF LT(probability, v.config.negativeSpeechThreshold)
  THEN LET v1 == [v EXCEPT !.potentialSilenceDurationMs = @ + durationMs]
       IN IF v1.potentialSilenceDurationMs >= v.config.silenceDuration
          THEN LET endTime == IF v1.speechEndCandidateTime # 0
                              THEN v1.speechEndCandidateTime
                              ELSE timestamp
               IN endSpeech(v1, endTime, probability)
          ELSE v1
  ELSE [v EXCEPT !.state = "speaking",
                 !.potentialSilenceDurationMs = 0,
                 !.speechEndCandidateTime = 0]

onPotentialEnd(v, probability, timestamp, durationMs) ==
  IF LT(probability, v.config.negativeSpeechThreshold)
  THEN LET v1 == [v EXCEPT !.potentialSilenceDurationMs = @ + durationMs]
       IN IF v1.potentialSilenceDurationMs >= v.config.silenceDuration
          THEN LET endTime == IF v1.speechEndCandidateTime # 0
                              THEN v1.speechEndCandidateTime
                              ELSE timestamp
               IN endSpeech(v1, endTime, probability)
          ELSE v1
  ELSE IF GT(probability, v.config.positiveSpeechThreshold)
  THEN [v EXCEPT !.state = "speaking",
                 !.potentialSilenceDurationMs = 0,
                 !.speechEndCandidateTime = 0]
  ELSE v

updateVADState(v, probability, timestamp, processedDurationMs) ==
  LET durationMs == IF processedDurationMs > 0 THEN processedDurationMs
                    ELSE FrameDurationMs
  IN CASE v.state = "silence" -> onSilence(v, probability, timestamp, durationMs)
       [] v.state = "potential_start" ->
            onPotentialStart(v, probability, timestamp, durationMs)
       [] v.state = "speaking" -> onSpeaking(v, probability, timestamp, durationMs)
       [] v.state = "potential_end" ->
            onPotentialEnd(v, probability, timestamp, durationMs)
       [] OTHER -> v

IsSpeech(v) == v.state \in {"speaking", "potential_end"}

(***************************************************************************)
(* SileroVAD.process, cut at its suspension point "await session.run".     *)
(* An invocation c keeps the locals of process(); c.pc is                  *)
(*   "await"  suspended in processFrame with c.frame handed to the oracle  *)
(*            together with the state tensor c.stateIn,                     *)
(*   "done"   returned, "throw" rejected with 'SileroVAD not initialized'.  *)
(***************************************************************************)
(* "Store remaining samples for next call". *)
remainder(c) ==
  IF c.offset < ArrLen(c.combinedAudio)
  THEN SliceFrom(c.combinedAudio, c.offset) ELSE EmptyArr

processedDurationMs(c) ==
  IF c.frameCount > 0 THEN c.frameCount * FrameDurationMs
  ELSE (ArrLen(c.audioData) * 1000) \div SampleRate

(* Mutant: the sum of the frame probabilities, not their average. *)
finalProbability_sum(v, c) ==
  IF c.frameCount > 0 THEN Rat(c.totalProbability, 1)
  ELSE v.lastProbability

finalProbability(v, c) ==
  IF c.frameCount > 0 THEN Rat(c.totalProbability, c.frameCount)
  ELSE v.lastProbability

processFinish(v, c) ==
  LET v1 == [v EXCEPT !.sampleBuffer = remainder(c)]
  IN [v |-> updateVADState(v1, finalProbability(v, c), c.timestamp,
                           processedDurationMs(c)),
      c |-> [c EXCEPT !.pc = "done"]]

processLoop(v, c) ==
  IF c.offset + frameSize <= ArrLen(c.combinedAudio)
  THEN IF ~v.session \/ v.stateTensor = NullTensor
       THEN [v |-> v, c |-> [c EXCEPT !.pc = "throw"]]
       ELSE [v |-> v,
             c |-> [c EXCEPT !.pc = "await",
                             !.frame = Slice(c.combinedAudio, c.offset, c.offset + frameSize),
                             !.stateIn = v.stateTensor]]
  ELSE processFinish(v, c)

(* Mutant: the batch deletion waits until the buffer is twice the limit. *)
pushChunk_late(v, audioData) ==
  LET pushed == Append(v.audioBuffer, audioData)
      prePadFrames == CeilDiv(PrePadSamples(v), ArrLen(audioData))
      maxBufferFrames == prePadFrames * 2
  IN IF v.state = "silence" /\ Len(pushed) > 2 * maxBufferFrames
     THEN SliceLast(pushed, maxBufferFrames) ELSE pushed

(* Mutant: the buffer is cut back in every state, also during speech. *)
pushChunk_always(v, audioData) ==
  LET pushed == Append(v.audioBuffer, audioData)
      prePadFrames == CeilDiv(PrePadSamples(v), ArrLen(audioData))
      maxBufferFrames == prePadFrames * 2
  IN IF 2 * Len(pushed) > 3 * maxBufferFrames
     THEN SliceLast(pushed, maxBufferFrames) ELSE pushed

(* "Add to speech segment buffer", pruned in batches while in silence. *)
pushChunk(v, audioData) ==
  LET pushed == Append(v.audioBuffer, audioData)
      prePadFrames == CeilDiv(PrePadSamples(v), ArrLen(audioData))
      maxBufferFrames == prePadFrames * 2
  IN IF v.state = "silence" /\ 2 * Len(pushed) > 3 * maxBufferFrames
     THEN SliceLast(pushed, maxBufferFrames) ELSE pushed

(* Mutant: the carried remainder is not prepended. *)
combine_noCarry(v, audioData) == audioData

(* "Concatenate new audio with sample buffer". *)
combine(v, audioData) == Concat(v.sampleBuffer, audioData)

processBegin(v, audioData, timestamp, seq) ==
  LET v1 == [v EXCEPT !.lastTimestamp = timestamp,
                      !.audioBuffer = pushChunk(v, audioData)]
      c == [seq |-> seq, audioData |-> audioData, timestamp |-> timestamp,
            combinedAudio |-> combine(v, audioData),
            offset |-> 0, totalProbability |-> 0, frameCount |-> 0,
            pc |-> "run", frame |-> EmptyArr, stateIn |-> NullTensor]
  IN processLoop(v1, c)

(* The oracle answered c's pending call with `probability` and `stateN`. *)
processResume(v, c, probability, stateN) ==
  LET v1 == [v EXCEPT !.stateTensor = stateN,
                      !.lastProbability = Rat(probability, 1)]
      c1 == [c EXCEPT !.totalProbability = @ + probability,
                      !.frameCount = @ + 1,
                      !.offset = @ + frameSize]
  IN processLoop(v1, c1)

(* updateConfig(config): "{ ...this.config, ...config }", the fields the   *)
(* partial config gives replace the active ones; nothing is validated.     *)
updateConfig(v, config) ==
  [v EXCEPT !.config = [k \in DOMAIN v.config |->
                          IF k \in DOMAIN config THEN config[k] ELSE v.config[k]]]

(* Mutant: the sample remainder survives the reset. *)
reset_keepRemainder(v) ==
  resetStates([resetToSilence(v) EXCEPT !.audioBuffer = <<>>,
                                        !.lastProbability = ZeroProbability,
                                        !.lastTimestamp = 0])

reset(v) ==
  resetStates([resetToSilence(v) EXCEPT !.audioBuffer = <<>>,
                                        !.sampleBuffer = EmptyArr,
                                        !.lastProbability = ZeroProbability,
                                        !.lastTimestamp = 0])

(* Mutant: a pending potential start is finalized like confirmed speech. *)
flush_endsPotentialStart(v, timestamp) ==
  IF v.state \in {"speaking", "potential_end", "potential_start"}
  THEN LET endTime == IF timestamp # <<>> THEN timestamp[1]
                      ELSE v.speechEndCandidateTime
       IN endSpeech(v, endTime, v.lastProbability)
  ELSE v

(* Mutant: only the Speaking state is finalized. *)
flush_speakingOnly(v, timestamp) ==
  IF v.state = "speaking"
  THEN LET endTime == IF timestamp # <<>> THEN timestamp[1]
                      ELSE v.speechEndCandidateTime
       IN endSpeech(v, endTime, v.lastProbability)
  ELSE IF v.state = "potential_start" THEN resetToSilence(v)
  ELSE v

(* flush(timestamp?): `timestamp` is <<>> for undefined, <<t>> otherwise.   *)
(* "a ?? b" yields b only when a is null or undefined; the numeric field    *)
(* speechEndCandidateTime never is.                                         *)
flush(v, timestamp) ==
  IF v.state \in {"speaking", "potential_end"}
  THEN LET endTime == IF timestamp # <<>> THEN timestamp[1]
                      ELSE v.speechEndCandidateTime
       IN endSpeech(v, endTime, v.lastProbability)
  ELSE IF v.state = "potential_start" THEN resetToSilence(v)
  ELSE v

(***************************************************************************)
(* The observer's record.  None of it is read by the program.              *)
(*   nChunks   chunks handed to AudioProcessor.process so far              *)
(*   started   sequence numbers of the chunks, in the order process() began*)
(*   nDone     process() invocations that have returned or thrown          *)
(*   fed       concatenation of the frames handed to the oracle, in order  *)
(*   frameLens lengths of the frames handed to the oracle                  *)
(*   consumed  concatenation of the chunks handed to process(), in order   *)
(*   allBelow  every oracle answer so far was below the negative threshold *)
(*   cause     one entry per delivered event: the operation that emitted it*)
(*             (by), the chunk being processed (seq, 0 if none) and, for   *)
(*             flushAsync, how many of the chunks handed over before the   *)
(*             call had not finished processing (behind)                   *)
(*   trail     the segmentation states the engine has been through          *)
(*   failed    oracle calls that were rejected                             *)
(*   last      the latest process() invocation, unless it has returned:    *)
(*             where the call stands (result: "await", "throw", "reject")  *)
(*             and, in runs whose oracle may fail, the instance as it was  *)
(*             when the call was made (before)                             *)
(*   ops       the flush / flushAsync / reset / close calls so far, each   *)
(*             with the segmentation state it met                          *)
(***************************************************************************)
InitHist ==
  [nChunks |-> 0, started |-> <<>>, nDone |-> 0, fed |-> EmptyArr,
   frameLens |-> {}, consumed |-> EmptyArr, allBelow |-> TRUE,
   cause |-> <<>>, trail |-> <<"silence">>, ops |-> <<>>,
   failed |-> 0, last |-> <<>>]

Outcome(before, result) ==
  IF result = "done" THEN <<>>
  ELSE <<[before |-> IF Fail \in oracle /\ result # "throw" THEN before ELSE <<>>,
          result |-> result]>>

Causes(v, v2, tag) ==
  [i \in 1 .. (Len(v2.delivered) - Len(v.delivered)) |-> tag]

(* The states the step from v to v2 went through: an emitted speech-end    *)
(* means the engine passed through silence.                                *)
Trail(t, v, v2) ==
  LET ended == Len(v2.delivered) > Len(v.delivered)
                 /\ v2.delivered[Len(v2.delivered)].type = "speech-end"
      t1 == IF ended /\ t[Len(t)] # "silence" THEN Append(t, "silence") ELSE t
  IN IF v2.state # t1[Len(t1)] THEN Append(t1, v2.state) ELSE t1

(* The handing of c.frame to the oracle, when c is suspended there. *)
NoteFrame(h, c) ==
  IF c.pc = "await"
  THEN [h EXCEPT !.fed = Concat(@, c.frame),
                 !.frameLens = @ \cup {ArrLen(c.frame)}]
  ELSE h

(***************************************************************************)
(* RTA (RealtimeAudioSDK.ts, first half) with its AudioCapture.  `rta`     *)
(* holds RTA.state, config.deviceId and isSwitchingDevice, AudioCapture's  *)
(* isCapturing, audioContext (set or null) and currentOptions (the device  *)
(* it captures from, <<>> for null), and the asynchronous calls suspended  *)
(* at an await (`pending`).  A pending call whose awaited promise is       *)
(* already resolved (`micro`) continues before any timer, I/O or user      *)
(* event, in the order of suspension; the others continue when their       *)
(* awaited operation completes.  Observer's fields: `events` counts the    *)
(* 'state' events and keeps the latest, `change` is the latest setState    *)
(* with the call that made it, `deviceEvent` the latest 'device' event,    *)
(* `settled` how the latest setDevice call ended, `nCalls` the calls made, *)
(* `unplugged` the device-unplugged events received, `destroyed` whether a *)
(* destroy() has run to its end.  `sessions` counts the oracle sessions    *)
(* AudioProcessor.initialize() has created and those released, and tells   *)
(* whether AudioProcessor.sileroVAD is set (`held`).                       *)
(***************************************************************************)
Devices == {"mic1", "mic2"}

MAX_DEVICE_SWITCH_RETRIES == 3

NewRTA ==
  [state |-> "idle", deviceId |-> <<>>, isSwitchingDevice |-> FALSE,
   isCapturing |-> FALSE, audioContext |-> FALSE, currentOptions |-> <<>>,
   pending |-> <<>>, events |-> [n |-> 0, last |-> <<>>], change |-> <<>>,
   deviceEvent |-> <<>>, settled |-> <<>>, nCalls |-> 0,
   autoSwitchDevice |-> TRUE, deviceSwitchRetryCount |-> 0,
   sessions |-> [created |-> 0, released |-> 0, held |-> FALSE],
   unplugged |-> 0, destroyed |-> FALSE]

(* The instance after start() has completed on mic1, and after a pause(). *)
RecordingRTA ==
  [NewRTA EXCEPT !.state = "recording", !.deviceId = <<"mic1">>,
                 !.isCapturing = TRUE, !.audioContext = TRUE,
                 !.currentOptions = <<"mic1">>,
                 !.sessions = [created |-> 1, released |-> 0, held |-> TRUE],
                 !.events = [n |-> 1, last |-> <<"recording">>],
                 !.change = <<[op |-> "start", from |-> "idle", to |-> "recording"]>>]

PausedRTA ==
  [RecordingRTA EXCEPT !.state = "paused", !.isCapturing = FALSE,
                       !.audioContext = FALSE, !.currentOptions = <<>>,
                       !.events = [n |-> 2, last |-> <<"paused">>],
                       !.change = <<[op |-> "pause", from |-> "recording", to |-> "paused"]>>]

(* RTA.setState(state), called by `op`. *)
setState(r, state, op) ==
  [r EXCEPT !.state = state,
            !.events = [n |-> @.n + 1, last |-> <<state>>],
            !.change = <<[op |-> op, from |-> r.state, to |-> state]>>]

(* RTA.handleError(error): setState('error') and an 'error' event. *)
handleError(r, op) == setState(r, "error", op)

(* AudioCapture.cleanup(): nodes and stream dropped, the context closed. *)
cleanup(r) == [r EXCEPT !.audioContext = FALSE]

(* AudioCapture.stop() *)
AudioCapture_stop(r) ==
  [cleanup(r) EXCEPT !.isCapturing = FALSE, !.currentOptions = <<>>]

(* AudioCapture.start(options) up to "await getUserMedia": it throws when  *)
(* already capturing, before anything is touched.                          *)
AudioCapture_startThrows(r) == r.isCapturing

AudioCapture_startBegin(r) == [r EXCEPT !.audioContext = TRUE]

(* AudioCapture.start(options) after its awaits.  `granted` is whether     *)
(* getUserMedia and addModule succeeded; the code after them dereferences  *)
(* this.audioContext, which a stop() in between has set to null.           *)
AudioCapture_startSucceeds(r, granted) == granted /\ r.audioContext

AudioCapture_startEnd(r, deviceId, granted) ==
  IF AudioCapture_startSucceeds(r, granted)
  THEN [r EXCEPT !.isCapturing = TRUE, !.currentOptions = <<deviceId>>]
  ELSE cleanup(r)

(* RTA.getCaptureOptions(deviceId): the device the options name; without  *)
(* a configured device the browser captures from its default input.       *)
getCaptureOptions(deviceId) == IF deviceId = <<>> THEN "default" ELSE deviceId[1]

(* A call is made: the observer counts it. *)
Called(r) == [r EXCEPT !.nCalls = @ + 1]

Suspend(r, call) == [r EXCEPT !.pending = Append(@, call)]

Resumed(r, i) ==
  [r EXCEPT !.pending = SubSeq(@, 1, i - 1) \o SubSeq(@, i + 1, Len(@))]

PendingCall(op, pc, micro, device, old) ==
  [op |-> op, pc |-> pc, micro |-> micro, device |-> device, old |-> old]

(* The pending calls that may continue now: the first whose promise is     *)
(* already resolved, or, when there is none, any of the others.            *)
Ready(r) ==
  LET micros == {i \in DOMAIN r.pending : r.pending[i].micro}
  IN IF micros # {} THEN {CHOOSE i \in micros : \A j \in micros : i <= j}
     ELSE DOMAIN r.pending

ReadyAt(op, pc) ==
  {i \in Ready(rta) : rta.pending[i].op = op /\ rta.pending[i].pc = pc}

(* The calls that run the body of stop(), of start() and of setDevice():  *)
(* the call itself, or a call that awaits it.                              *)
StopCallers == {"stop", "updateConfig", "destroy"}
StartCallers == {"start", "updateConfig"}
SwitchCallers == {"setDevice", "autoSwitch"}

ReadyIn(ops, pc) ==
  {i \in Ready(rta) : rta.pending[i].op \in ops /\ rta.pending[i].pc = pc}

(* AudioProcessor.initialize() with VAD enabled: a new SileroVAD with a    *)
(* new session takes the place of the one held, which is not closed.       *)
AudioProcessor_initialize(r) ==
  [r EXCEPT !.sessions = [created |-> @.created + 1, released |-> @.released,
                          held |-> TRUE]]

(* AudioProcessor.close() after "await this.sileroVAD.close()". *)
AudioProcessor_closed(r) ==
  [r EXCEPT !.sessions = [created |-> @.created, released |-> @.released + 1,
                          held |-> FALSE]]

EngineVars == <<vad, sileroVAD, processingQueue, inflight, flushWaiters, closing,
                capture, oracle, hist>>

(* RTA.start(), to its first await. *)
RTA_start ==
  /\ rta.nCalls < MaxCalls
  /\ rta' = IF rta.state = "recording" THEN Called(rta)
            ELSE Suspend(setState(Called(rta), "recording", "start"),
                         PendingCall("start", "prepare", FALSE, <<>>, <<>>))
  /\ UNCHANGED EngineVars

(* start(): permission, device and AudioProcessor.initialize() are done,   *)
(* or one of them failed; then audioCapture.start(captureOptions).         *)
StartPrepared ==
  \E i \in ReadyIn(StartCallers, "prepare"), ok \in BOOLEAN :
    LET r == Resumed(rta, i)
        op == rta.pending[i].op
        deviceId == IF r.deviceId # <<>> THEN r.deviceId[1] ELSE "mic1"
        r1 == AudioProcessor_initialize([r EXCEPT !.deviceId = <<deviceId>>])
    IN /\ rta' = IF ~ok THEN setState(r, "error", op)
                 ELSE IF AudioCapture_startThrows(r1)
                 THEN setState(r1, "error", op)
                 ELSE Suspend(AudioCapture_startBegin(r1),
                              PendingCall(op, "capture", FALSE, <<deviceId>>, <<>>))
       /\ UNCHANGED EngineVars

(* start(): audioCapture.start has settled. *)
StartCaptured ==
  \E i \in ReadyIn(StartCallers, "capture"), granted \in BOOLEAN :
    LET r == Resumed(rta, i)
        r1 == AudioCapture_startEnd(r, rta.pending[i].device[1], granted)
    IN /\ rta' = IF AudioCapture_startSucceeds(r, granted) THEN r1
                 ELSE setState(r1, "error", rta.pending[i].op)
       /\ UNCHANGED EngineVars

(* RTA.stop(), to its first await. *)
RTA_stop ==
  /\ rta.nCalls < MaxCalls
  /\ rta' = IF rta.state = "idle" THEN Called(rta)
            ELSE Suspend(AudioCapture_stop(Called(rta)),
                         PendingCall("stop", "stopped", TRUE, <<>>, <<>>))
  /\ UNCHANGED EngineVars

(* stop(): capture has stopped; it awaits audioProcessor.flushAsync(). *)
StopStopped ==
  \E i \in ReadyIn(StopCallers, "stopped") :
    /\ rta' = Suspend(Resumed(rta, i),
                      PendingCall(rta.pending[i].op, "flush", FALSE, <<>>, <<>>))
    /\ UNCHANGED EngineVars

(* stop(): flushAsync has settled; stop() resolves either way, and a call  *)
(* that awaits it continues from there.                                    *)
StopFlushed ==
  \E i \in ReadyIn(StopCallers, "flush"), ok \in BOOLEAN :
    LET op == rta.pending[i].op
        r == IF ok THEN setState(Resumed(rta, i), "idle", op)
             ELSE handleError(Resumed(rta, i), op)
    IN /\ rta' = IF op = "stop" THEN r
                 ELSE Suspend(r, PendingCall(op, "stopReturned", TRUE, <<>>, <<>>))
       /\ UNCHANGED EngineVars

(* RTA.updateConfig(config), to its first await: "await this.stop()" when  *)
(* recording, and the body of stop() up to its own first await.            *)
RTA_updateConfig ==
  /\ rta.nCalls < MaxCalls
  /\ rta' = IF rta.state # "recording" THEN Called(rta)
            ELSE Suspend(AudioCapture_stop(Called(rta)),
                         PendingCall("updateConfig", "stopped", TRUE, <<>>, <<>>))
  /\ UNCHANGED EngineVars

(* updateConfig(): stop() has returned, the configuration is merged and    *)
(* "await this.start()" runs the body of start() to its first await.       *)
UpdateConfigStopped ==
  \E i \in ReadyAt("updateConfig", "stopReturned") :
    LET r == Resumed(rta, i)
    IN /\ rta' = IF r.state = "recording" THEN r
                 ELSE Suspend(setState(r, "recording", "updateConfig"),
                              PendingCall("updateConfig", "prepare", FALSE, <<>>, <<>>))
       /\ UNCHANGED EngineVars

(* RTA.destroy(), to its first await: "await this.stop()". *)
RTA_destroy ==
  /\ rta.nCalls < MaxCalls
  /\ rta' = IF rta.state = "idle"
            THEN Suspend(Called(rta),
                         PendingCall("destroy", "stopReturned", TRUE, <<>>, <<>>))
            ELSE Suspend(AudioCapture_stop(Called(rta)),
                         PendingCall("destroy", "stopped", TRUE, <<>>, <<>>))
  /\ UNCHANGED EngineVars

(* destroy(): stop() has returned; "await this.audioProcessor.close()"     *)
(* awaits sileroVAD.close() when a SileroVAD is held.                      *)
DestroyStopped ==
  \E i \in ReadyAt("destroy", "stopReturned") :
    LET r == Resumed(rta, i)
    IN /\ rta' = IF r.sessions.held
                 THEN Suspend(r, PendingCall("destroy", "closing", FALSE, <<>>, <<>>))
                 ELSE [r EXCEPT !.destroyed = TRUE]
       /\ UNCHANGED EngineVars

(* destroy(): the held SileroVAD has released its session; sileroVAD is    *)
(* cleared and the listeners are removed.                                  *)
DestroyClosed ==
  \E i \in ReadyAt("destroy", "closing") :
    /\ rta' = [AudioProcessor_closed(Resumed(rta, i)) EXCEPT !.destroyed = TRUE]
    /\ UNCHANGED EngineVars

(* RTA.pause(), to its await. *)
RTA_pause ==
  /\ rta.nCalls < MaxCalls
  /\ rta' = IF rta.state # "recording" THEN Called(rta)
            ELSE Suspend(AudioCapture_stop(Called(rta)),
                         PendingCall("pause", "stopped", TRUE, <<>>, <<>>))
  /\ UNCHANGED EngineVars

PauseStopped ==
  \E i \in ReadyAt("pause", "stopped") :
    /\ rta' = setState(Resumed(rta, i), "paused", "pause")
    /\ UNCHANGED EngineVars

(* RTA.resume(), to its await; it rejects at once when audioCapture.start  *)
(* throws.                                                                 *)
RTA_resume ==
  /\ rta.nCalls < MaxCalls
  /\ rta' = IF rta.state # "paused" \/ AudioCapture_startThrows(rta) THEN Called(rta)
            ELSE Suspend(AudioCapture_startBegin(Called(rta)),
                         PendingCall("resume", "capture", FALSE,
                                     <<getCaptureOptions(rta.deviceId)>>, <<>>))
  /\ UNCHANGED EngineVars

(* resume(): audioCapture.start has settled. *)
ResumeCaptured ==
  \E i \in ReadyAt("resume", "capture"), granted \in BOOLEAN :
    LET r == Resumed(rta, i)
        r1 == AudioCapture_startEnd(r, rta.pending[i].device[1], granted)
    IN /\ rta' = IF AudioCapture_startSucceeds(r, granted)
                 THEN setState(r1, "recording", "resume")
                 ELSE r1
       /\ UNCHANGED EngineVars

(* What RTA.setDevice does when audioCapture.switchDevice has settled:     *)
(* `code` is <<>> when it resolved, <<c>> when it rejected with an error   *)
(* whose code is c ("" for an error without code).                         *)
setDeviceSettled(r, deviceId, code) ==
  IF code = <<>>
  THEN [r EXCEPT !.isSwitchingDevice = FALSE,
                 !.deviceSwitchRetryCount = 0,
                 !.deviceEvent = <<[type |-> "changed", deviceId |-> deviceId,
                                    rolledBack |-> <<>>]>>,
                 !.settled = <<[result |-> "resolved", code |-> "",
                                deviceId |-> deviceId]>>]
  ELSE [r EXCEPT !.isSwitchingDevice = FALSE,
                 !.deviceEvent =
                   <<[type |-> "switch-failed", deviceId |-> deviceId,
                      rolledBack |-> <<code[1] = "DEVICE_SWITCH_FAILED_ROLLBACK_SUCCESS">>]>>,
                 !.settled = <<[result |-> "rejected", code |-> code[1],
                                deviceId |-> deviceId]>>]

(* The second handleError of the device-unplugged handler's catch clause, *)
(* for the last retry.                                                     *)
criticalError(r) ==
  IF r.deviceSwitchRetryCount >= MAX_DEVICE_SWITCH_RETRIES
  THEN handleError(r, "device-unplugged") ELSE r

(* The catch clause of the device-unplugged handler. *)
autoSwitchFailed(r) == criticalError(handleError(r, "device-unplugged"))

(* setDevice has settled for the call suspended in it; when the            *)
(* device-unplugged handler awaits it, a rejection enters its catch clause.*)
switchSettled(r, call, code) ==
  LET r1 == setDeviceSettled(r, call.device[1], code)
  IN IF call.op = "autoSwitch" /\ code # <<>> THEN autoSwitchFailed(r1) ELSE r1

(* Mutant: a switch requested while another is in progress is started. *)
setDeviceBegin_noGuard(r, deviceId, op) ==
  IF r.state # "recording" THEN [r EXCEPT !.deviceId = <<deviceId>>]
  ELSE IF ~r.isCapturing
  THEN Suspend([r EXCEPT !.isSwitchingDevice = TRUE],
               PendingCall(op, "idle", TRUE, <<deviceId>>, <<>>))
  ELSE Suspend([AudioCapture_stop(r) EXCEPT !.isSwitchingDevice = TRUE],
               PendingCall(op, "stopped", TRUE, <<deviceId>>, r.currentOptions))

(* The body of setDevice(deviceId), run for `op`, to the first await of    *)
(* switchDevice.                                                           *)
setDeviceBegin(r, deviceId, op) ==
  IF r.isSwitchingDevice THEN r
  ELSE IF r.state # "recording" THEN [r EXCEPT !.deviceId = <<deviceId>>]
  ELSE IF ~r.isCapturing
  THEN Suspend([r EXCEPT !.isSwitchingDevice = TRUE],
               PendingCall(op, "idle", TRUE, <<deviceId>>, <<>>))
  ELSE Suspend([AudioCapture_stop(r) EXCEPT !.isSwitchingDevice = TRUE],
               PendingCall(op, "stopped", TRUE, <<deviceId>>, r.currentOptions))

(* RTA.setDevice(deviceId), to the first await of switchDevice. *)
RTA_setDevice ==
  \E deviceId \in Devices :
    /\ rta.nCalls < MaxCalls
    /\ rta' = setDeviceBegin(Called(rta), deviceId, "setDevice")
    /\ UNCHANGED EngineVars

(* Mutant: the handler attempts a switch whatever the retry count. *)
onDeviceUnplugged_noLimit(r, deviceId) ==
  LET r1 == [r EXCEPT !.unplugged = @ + 1,
                      !.deviceEvent = <<[type |-> "unplugged", deviceId |-> deviceId,
                                         rolledBack |-> <<>>]>>]
  IN IF r.autoSwitchDevice /\ r.state = "recording"
     THEN Suspend([r1 EXCEPT !.deviceSwitchRetryCount = @ + 1],
                  PendingCall("autoSwitch", "default", FALSE, <<>>, <<>>))
     ELSE r1

(* The handler of deviceManager's 'device-unplugged', to its first await. *)
onDeviceUnplugged(r, deviceId) ==
  LET r1 == [r EXCEPT !.unplugged = @ + 1,
                      !.deviceEvent = <<[type |-> "unplugged", deviceId |-> deviceId,
                                         rolledBack |-> <<>>]>>]
  IN IF r.autoSwitchDevice /\ r.state = "recording"
     THEN IF r.deviceSwitchRetryCount >= MAX_DEVICE_SWITCH_RETRIES
          THEN handleError(r1, "device-unplugged")
          ELSE Suspend([r1 EXCEPT !.deviceSwitchRetryCount = @ + 1],
                       PendingCall("autoSwitch", "default", FALSE, <<>>, <<>>))
     ELSE r1

(* deviceManager emits 'device-unplugged'. *)
DeviceUnplugged ==
  \E deviceId \in Devices :
    /\ rta.unplugged < MaxUnplugged
    /\ rta' = onDeviceUnplugged(rta, deviceId)
    /\ UNCHANGED EngineVars

(* The handler's "await this.deviceManager.getDefaultDevice()" has         *)
(* settled: with a device, and setDevice is called for it; with none; or   *)
(* by a rejection.                                                         *)
AutoSwitchDefault ==
  \E i \in ReadyAt("autoSwitch", "default"),
     found \in {<<d>> : d \in Devices} \cup {<<>>, <<"throws">>} :
    LET r == Resumed(rta, i)
    IN /\ rta' = IF found = <<>> THEN r
                 ELSE IF found = <<"throws">> THEN autoSwitchFailed(r)
                 ELSE setDeviceBegin(r, found[1], "autoSwitch")
       /\ UNCHANGED EngineVars

(* switchDevice returned at once because nothing was being captured. *)
SwitchSkipped ==
  \E i \in ReadyIn(SwitchCallers, "idle") :
    /\ rta' = switchSettled(Resumed(rta, i), rta.pending[i], <<>>)
    /\ UNCHANGED EngineVars

(* The code of the error switchDevice rejects with when its rollback       *)
(* "await this.start(oldOptions)" has settled.  The rollback-success error *)
(* is thrown inside the try block whose catch clause builds the            *)
(* rollback-failed error, so that clause receives it like any other.       *)
rollbackTry(started) ==
  IF started THEN "DEVICE_SWITCH_FAILED_ROLLBACK_SUCCESS" ELSE ""

rollbackCatch(thrown) == "DEVICE_SWITCH_FAILED_ROLLBACK_FAILED"

rollbackCode(started) == rollbackCatch(rollbackTry(started))

(* switchDevice begins its rollback "await this.start(oldOptions)". *)
beginRollback(r, call) ==
  IF call.old = <<>> THEN switchSettled(r, call, <<"">>)
  ELSE IF AudioCapture_startThrows(r)
  THEN switchSettled(r, call, <<rollbackCode(FALSE)>>)
  ELSE Suspend(AudioCapture_startBegin(r),
               PendingCall(call.op, "rollback", FALSE, call.device, call.old))

(* switchDevice: the old capture has stopped; start(newOptions) begins. *)
SwitchStopped ==
  \E i \in ReadyIn(SwitchCallers, "stopped") :
    LET r == Resumed(rta, i)
        call == rta.pending[i]
    IN /\ rta' = IF AudioCapture_startThrows(r) THEN beginRollback(r, call)
                 ELSE Suspend(AudioCapture_startBegin(r),
                              PendingCall(call.op, "switching", FALSE,
                                          call.device, call.old))
       /\ UNCHANGED EngineVars

(* switchDevice: start(newOptions) has settled. *)
SwitchStarted ==
  \E i \in ReadyIn(SwitchCallers, "switching"), granted \in BOOLEAN :
    LET r == Resumed(rta, i)
        call == rta.pending[i]
        r1 == AudioCapture_startEnd(r, call.device[1], granted)
    IN /\ rta' = IF AudioCapture_startSucceeds(r, granted)
                 THEN switchSettled(r1, call, <<>>)
                 ELSE beginRollback(r1, call)
       /\ UNCHANGED EngineVars

(* switchDevice: the rollback start(oldOptions) has settled. *)
SwitchRolledBack ==
  \E i \in ReadyIn(SwitchCallers, "rollback"), granted \in BOOLEAN :
    LET r == Resumed(rta, i)
        call == rta.pending[i]
        r1 == AudioCapture_startEnd(r, call.old[1], granted)
        started == AudioCapture_startSucceeds(r, granted)
    IN /\ rta' = switchSettled(r1, call, <<rollbackCode(started)>>)
       /\ UNCHANGED EngineVars

(* An RTA that is idle, recording on mic1, or paused, and a sequence of    *)
(* calls made without waiting for the previous one.                        *)
InitRTA ==
  /\ vad = NewSileroVAD(SmallConfig)
  /\ sileroVAD = TRUE
  /\ processingQueue = <<>>
  /\ inflight = <<>>
  /\ flushWaiters = <<>>
  /\ closing = FALSE
  /\ capture = [sizes |-> {frameSize}, captured |-> 0, budget |-> 0]
  /\ oracle = Probs
  /\ rta \in {NewRTA, RecordingRTA, PausedRTA}
  /\ hist = InitHist

NextRTA ==
  \/ RTA_start
  \/ StartPrepared
  \/ StartCaptured
  \/ RTA_stop
  \/ StopStopped
  \/ StopFlushed
  \/ RTA_pause
  \/ PauseStopped
  \/ RTA_resume
  \/ ResumeCaptured
  \/ RTA_setDevice
  \/ SwitchSkipped
  \/ SwitchStopped
  \/ SwitchStarted
  \/ SwitchRolledBack

SpecRTA == InitRTA /\ [][NextRTA]_vars

(* The lifetime of the oracle sessions: start, stop, updateConfig and     *)
(* destroy, called without waiting for one another.                        *)
NextSessions ==
  \/ RTA_start
  \/ StartPrepared
  \/ StartCaptured
  \/ RTA_stop
  \/ StopStopped
  \/ StopFlushed
  \/ RTA_updateConfig
  \/ UpdateConfigStopped
  \/ RTA_destroy
  \/ DestroyStopped
  \/ DestroyClosed

SpecSessions == InitRTA /\ [][NextSessions]_vars

(* Recording while devices are unplugged: the automatic switch to the     *)
(* default device, and a setDevice() call by the application.              *)
NextAutoSwitch ==
  \/ DeviceUnplugged
  \/ AutoSwitchDefault
  \/ RTA_setDevice
  \/ SwitchSkipped
  \/ SwitchStopped
  \/ SwitchStarted
  \/ SwitchRolledBack

InitAutoSwitch ==
  /\ InitRTA
  /\ rta = RecordingRTA

SpecAutoSwitch == InitAutoSwitch /\ [][NextAutoSwitch]_vars

(* setDevice() called again and again while recording. *)
NextSwitch ==
  \/ RTA_setDevice
  \/ SwitchSkipped
  \/ SwitchStopped
  \/ SwitchStarted
  \/ SwitchRolledBack

(* A device switch in progress. *)
SwitchPending(r) ==
  {i \in DOMAIN r.pending :
     /\ r.pending[i].op \in SwitchCallers
     /\ r.pending[i].pc \in {"idle", "stopped", "switching", "rollback"}}

(* The browser settles what switchDevice awaits (the old stream's stop,    *)
(* getUserMedia, the worklet module), so a switch in progress continues.   *)
SwitchContinues ==
  \/ []<>(SwitchPending(rta) = {})
  \/ []<><<SwitchSkipped \/ SwitchStopped \/ SwitchStarted \/ SwitchRolledBack>>_vars

SpecSwitch == InitAutoSwitch /\ [][NextSwitch]_vars /\ SwitchContinues

(* start() and stop() alone, called without waiting for one another. *)
NextStartStop ==
  \/ RTA_start
  \/ StartPrepared
  \/ StartCaptured
  \/ RTA_stop
  \/ StopStopped
  \/ StopFlushed

InitStartStop ==
  /\ InitRTA
  /\ rta \in {NewRTA, RecordingRTA}

SpecStartStop == InitStartStop /\ [][NextStartStop]_vars

NowMs == (capture.captured * 1000) \div SampleRate

(* Oracle answers on either side of both thresholds. *)
SpeechOrSilence == {20, 40}

Init ==
  /\ vad = NewSileroVAD(SmallConfig)
  /\ sileroVAD = TRUE
  /\ processingQueue = <<>>
  /\ inflight = <<>>
  /\ flushWaiters = <<>>
  /\ closing = FALSE
  /\ capture \in {[sizes |-> {n}, captured |-> 0, budget |-> MaxChunks] : n \in ChunkSizes}
  /\ oracle = SpeechOrSilence
  /\ rta = NewRTA
  /\ hist = InitHist

(* A run without flush, reset or close: a longer stream. *)
InitStream ==
  /\ vad = NewSileroVAD(SmallConfig)
  /\ sileroVAD = TRUE
  /\ processingQueue = <<>>
  /\ inflight = <<>>
  /\ flushWaiters = <<>>
  /\ closing = FALSE
  /\ capture \in {[sizes |-> {n}, captured |-> 0, budget |-> MaxStreamChunks] : n \in ChunkSizes}
  /\ oracle = Probs
  /\ rta = NewRTA
  /\ hist = InitHist

(* The queue's consumer emits 'vad-result' with what process() returned    *)
(* for the chunk, and the chunk's timestamp.                               *)
emitVadResult(v, c) ==
  IF v.listeners # <<>>
  THEN [v EXCEPT !.results =
          [n |-> @.n + 1,
           last |-> <<[isSpeech |-> IsSpeech(v),
                       probability |-> finalProbability(v, c),
                       timestamp |-> c.timestamp]>>]]
  ELSE v

(* The instance after a step of an invocation: when AudioProcessor drives  *)
(* the engine, a returned invocation is followed by its 'vad-result'.      *)
Settle(r) ==
  IF sileroVAD /\ r.c.pc = "done" THEN emitVadResult(r.v, r.c) ELSE r.v

(* AudioProcessor.calculateConfidence, on probabilities in percent. *)
calculateConfidence(probability) ==
  IF GT(probability, 90) THEN Rat(100, 1)
  ELSE IF GT(probability, 70) THEN Rat(90, 1)
  ELSE IF GT(probability, 50) THEN Rat(80, 1)
  ELSE probability

(* AudioProcessor.emitVADEvent(type, data): the events it emits, in order. *)
(* The 'speech-state' event is built without a segment field.  Times of    *)
(* the segment event are "seconds * 1000", the unit this model keeps       *)
(* every timestamp in.                                                     *)
emitVADEvent(type, data) ==
  LET hasSegment == type = "end" /\ data.segment # <<>>
      event == [name |-> "speech-state", type |-> type,
                timestamp |-> data.timestamp,
                probability |-> data.probability,
                duration |-> IF hasSegment THEN <<data.segment[1].duration>> ELSE <<>>,
                segment |-> <<>>]
      segmentEvent == [name |-> "speech-segment",
                       audio |-> data.segment[1].audioData,
                       startTime |-> data.segment[1].start,
                       endTime |-> data.segment[1].end,
                       duration |-> data.segment[1].duration,
                       avgProbability |-> data.probability,
                       confidence |-> calculateConfidence(data.probability)]
  IN IF hasSegment THEN <<event, segmentEvent>> ELSE <<event>>

(* AudioProcessor's handlers of the engine's speech-start and speech-end. *)
AudioProcessor_onSpeechEvent(data) ==
  emitVADEvent(IF data.type = "speech-start" THEN "start" ELSE "end", data)

(* Mutant: AudioProcessor forwards a 'vad-result' only for speech. *)
AudioProcessor_onVadResult_speechOnly(data) ==
  IF data.isSpeech THEN <<data>> ELSE <<>>

(* AudioProcessor's handler of the engine's 'vad-result': what it emits.   *)
AudioProcessor_onVadResult(data) == <<data>>

(* RealtimeAudioSDK's handler of AudioProcessor's 'vad-result': it caches  *)
(* the event and emits it.                                                 *)
RTA_onVadResult(event) == [latestVADResult |-> event, emitted |-> <<event>>]

(***************************************************************************)
(* A process() invocation begins: it runs to its first oracle call, or to  *)
(* its end when the chunk completes no frame.                              *)
(***************************************************************************)
CallProcess(item, h) ==
  LET r == processBegin(vad, item.audioData, item.timestamp, item.seq)
      tag == [by |-> "process", seq |-> item.seq, behind |-> 0]
      h1 == NoteFrame([h EXCEPT !.started = Append(@, item.seq),
                                !.consumed = Concat(@, item.audioData),
                                !.cause = @ \o Causes(vad, r.v, tag),
                                !.trail = Trail(@, vad, r.v),
                                !.last = Outcome(<<vad>>, r.c.pc),
                                !.nDone = IF r.c.pc = "await" THEN @ ELSE @ + 1],
                    r.c)
  IN /\ vad' = Settle(r)
     /\ inflight' = IF r.c.pc = "await" THEN Append(inflight, r.c) ELSE inflight
     /\ hist' = h1

(* SileroVAD.enqueue: the chunk joins the queue; the caller does not wait. *)
enqueue(item, h) ==
  /\ processingQueue' = Append(processingQueue, item)
  /\ hist' = h
  /\ UNCHANGED <<vad, inflight>>

(* The queue's consumer: the head of the queue is handed to process() when *)
(* no invocation is in flight.                                             *)
ProcessQueue ==
  /\ processingQueue # <<>>
  /\ inflight = <<>>
  /\ processingQueue' = Tail(processingQueue)
  /\ CallProcess(Head(processingQueue), hist)
  /\ UNCHANGED <<sileroVAD, flushWaiters, closing, capture, oracle, rta>>

(* Mutant: the chunk is handed to process() at once, bypassing the queue. *)
AudioProcessor_process_direct(audioData, timestamp) ==
  LET h == [hist EXCEPT !.nChunks = @ + 1]
      item == [audioData |-> audioData, timestamp |-> timestamp, seq |-> h.nChunks]
  IN IF sileroVAD
     THEN CallProcess(item, h) /\ UNCHANGED processingQueue
     ELSE /\ hist' = h
          /\ UNCHANGED <<vad, inflight, processingQueue>>

(* Mutant: a chunk that arrives while an invocation is in flight is not    *)
(* queued.                                                                 *)
AudioProcessor_process_skipBusy(audioData, timestamp) ==
  LET h == [hist EXCEPT !.nChunks = @ + 1]
      item == [audioData |-> audioData, timestamp |-> timestamp, seq |-> h.nChunks]
  IN IF sileroVAD /\ inflight = <<>>
     THEN enqueue(item, h)
     ELSE /\ hist' = h
          /\ UNCHANGED <<vad, inflight, processingQueue>>

(* SileroVAD.getQueueLength: the number of chunks waiting in the queue. *)
getQueueLength(queue) == Len(queue)

(* AudioProcessor.getVADQueueLength. *)
getVADQueueLength == IF sileroVAD THEN getQueueLength(processingQueue) ELSE 0

(* AudioProcessor.process(audioData, timestamp), with config.vad.enabled. *)
AudioProcessor_process(audioData, timestamp) ==
  LET h == [hist EXCEPT !.nChunks = @ + 1]
      item == [audioData |-> audioData, timestamp |-> timestamp, seq |-> h.nChunks]
  IN IF sileroVAD
     THEN enqueue(item, h)
     ELSE /\ hist' = h
          /\ UNCHANGED <<vad, inflight, processingQueue>>

(* The capture side delivers the next chunk of n samples, stamped with the *)
(* stream time at which the chunk was complete.                            *)
Capture ==
  \E n \in capture.sizes :
    /\ hist.nChunks < capture.budget
    /\ Len(processingQueue) < MaxQueue
    /\ capture' = [capture EXCEPT !.captured = @ + n]
    /\ AudioProcessor_process(<<[lo |-> capture.captured, n |-> n]>>,
                              ((capture.captured + n) * 1000) \div SampleRate)
    /\ UNCHANGED <<sileroVAD, flushWaiters, closing, oracle, rta>>

(* session.run resolves for one suspended invocation. *)
OracleReturn ==
  \E i \in 1 .. Len(inflight), p \in oracle \ {Fail} :
    LET c == inflight[i]
        r == processResume(vad, c, p, <<c.stateIn[1] + 1>>)
        tag == [by |-> "process", seq |-> c.seq, behind |-> 0]
        others == SubSeq(inflight, 1, i - 1) \o SubSeq(inflight, i + 1, Len(inflight))
    IN /\ vad' = Settle(r)
       /\ inflight' = IF r.c.pc = "await"
                      THEN [inflight EXCEPT ![i] = r.c] ELSE others
       /\ hist' = NoteFrame([hist EXCEPT
                     !.allBelow = @ /\ p < vad.config.negativeSpeechThreshold,
                     !.cause = @ \o Causes(vad, r.v, tag),
                     !.trail = Trail(@, vad, r.v),
                     !.last = Outcome(@[1].before, r.c.pc),
                     !.nDone = IF r.c.pc = "await" THEN @ ELSE @ + 1], r.c)
       /\ UNCHANGED <<sileroVAD, processingQueue, flushWaiters, closing, capture, oracle, rta>>

(* session.run rejects for one suspended invocation: processFrame and      *)
(* process() reject with it, and nothing after the await is executed.      *)
OracleReject ==
  \E i \in 1 .. Len(inflight) :
    /\ Fail \in oracle
    /\ hist.failed < MaxFaults
    /\ inflight' = SubSeq(inflight, 1, i - 1) \o SubSeq(inflight, i + 1, Len(inflight))
    /\ hist' = [hist EXCEPT !.failed = @ + 1,
                            !.last = Outcome(@[1].before, "reject"),
                            !.nDone = @ + 1]
    /\ UNCHANGED <<vad, sileroVAD, processingQueue, flushWaiters, closing,
                   capture, oracle, rta>>

(* SileroVAD.close up to its "await this.session.release()". *)
closeBegin(v) == flush(v, <<>>)

(* SileroVAD.close after the release. *)
closeEnd(v) ==
  [v EXCEPT !.session = FALSE, !.stateTensor = NullTensor, !.listeners = <<>>]

OpTag(name) == [by |-> name, seq |-> 0, behind |-> 0]

OpRecord(name) == [op |-> name, from |-> vad.state]

NoteOp(name, v2) ==
  [hist EXCEPT !.ops = Append(@, OpRecord(name)),
               !.trail = Trail(@, vad, v2),
               !.cause = @ \o Causes(vad, v2, OpTag(name))]

(* Timestamps a caller may pass to flush: none, or the current stream time. *)
FlushArgs == {<<>>, <<NowMs>>}

(* AudioProcessor.flush(timestamp?) *)
AudioProcessor_flush ==
  \E timestamp \in FlushArgs :
    /\ Len(hist.ops) < MaxOps
    /\ sileroVAD
    /\ vad' = flush(vad, timestamp)
    /\ hist' = NoteOp("flush", vad')
    /\ UNCHANGED <<sileroVAD, processingQueue, inflight, flushWaiters, closing,
                   capture, oracle, rta>>

(* AudioProcessor.resetVAD() *)
AudioProcessor_resetVAD ==
  /\ Len(hist.ops) < MaxOps
  /\ sileroVAD
  /\ vad' = reset(vad)
  /\ hist' = NoteOp("reset", vad')
  /\ UNCHANGED <<sileroVAD, processingQueue, inflight, flushWaiters, closing,
                 capture, oracle, rta>>

(* Mutant: flushAsync flushes at once, without waiting for the queue. *)
AudioProcessor_flushAsync_noWait ==
  \E timestamp \in FlushArgs :
    /\ Len(hist.ops) < MaxOps
    /\ sileroVAD
    /\ vad' = flush(vad, timestamp)
    /\ hist' = [hist EXCEPT !.ops = Append(@, OpRecord("flushAsync")),
                            !.trail = Trail(@, vad, vad'),
                            !.cause = @ \o Causes(vad, vad',
                    [by |-> "flushAsync", seq |-> 0,
                     behind |-> hist.nChunks - hist.nDone])]
    /\ UNCHANGED <<sileroVAD, processingQueue, inflight, flushWaiters, closing,
                   capture, oracle, rta>>

(* AudioProcessor.flushAsync(timestamp?): the call suspends until the      *)
(* queue has drained.                                                      *)
AudioProcessor_flushAsync ==
  \E timestamp \in FlushArgs :
    /\ Len(hist.ops) < MaxOps
    /\ sileroVAD
    /\ flushWaiters' = Append(flushWaiters,
                              [timestamp |-> timestamp, enq |-> hist.nChunks,
                               thenFlush |-> TRUE])
    /\ hist' = [hist EXCEPT !.ops = Append(@, OpRecord("flushAsync"))]
    /\ UNCHANGED <<vad, sileroVAD, processingQueue, inflight, closing,
                   capture, oracle, rta>>

(* The queue is drained: a suspended flushAsync goes on to flush(). *)
FlushAsyncResume ==
  /\ flushWaiters # <<>>
  /\ Head(flushWaiters).thenFlush
  /\ processingQueue = <<>>
  /\ inflight = <<>>
  /\ vad' = flush(vad, Head(flushWaiters).timestamp)
  /\ flushWaiters' = Tail(flushWaiters)
  /\ hist' = [hist EXCEPT !.trail = Trail(@, vad, vad'),
                          !.cause = @ \o Causes(vad, vad',
                  [by |-> "flushAsync", seq |-> 0,
                   behind |-> Max(0, Head(flushWaiters).enq - hist.nDone)])]
  /\ UNCHANGED <<sileroVAD, processingQueue, inflight, closing, capture, oracle, rta>>

(* AudioProcessor.waitForVADQueue(): the call suspends until the queue has *)
(* drained.                                                                *)
AudioProcessor_waitForVADQueue ==
  /\ Len(hist.ops) < MaxOps
  /\ sileroVAD
  /\ flushWaiters' = Append(flushWaiters,
                            [timestamp |-> <<>>, enq |-> hist.nChunks,
                             thenFlush |-> FALSE])
  /\ hist' = [hist EXCEPT !.ops = Append(@, OpRecord("waitForVADQueue"))]
  /\ UNCHANGED <<vad, sileroVAD, processingQueue, inflight, closing,
                 capture, oracle, rta>>

(* Mutant: the drain returns as soon as the queue is empty, while the last *)
(* chunk is still being processed.                                         *)
WaitForQueueEmptyResume_early ==
  /\ flushWaiters # <<>>
  /\ ~Head(flushWaiters).thenFlush
  /\ processingQueue = <<>>
  /\ flushWaiters' = Tail(flushWaiters)
  /\ UNCHANGED <<vad, sileroVAD, processingQueue, inflight, closing, capture,
                 oracle, rta, hist>>

(* The queue is drained: a suspended waitForQueueEmpty returns. *)
WaitForQueueEmptyResume ==
  /\ flushWaiters # <<>>
  /\ ~Head(flushWaiters).thenFlush
  /\ processingQueue = <<>>
  /\ inflight = <<>>
  /\ flushWaiters' = Tail(flushWaiters)
  /\ UNCHANGED <<vad, sileroVAD, processingQueue, inflight, closing, capture,
                 oracle, rta, hist>>

(* AudioProcessor.close(), first half: SileroVAD.close() flushes and waits *)
(* for the session to be released.                                         *)
AudioProcessor_close ==
  /\ Len(hist.ops) < MaxOps
  /\ sileroVAD
  /\ ~closing
  /\ vad' = closeBegin(vad)
  /\ closing' = TRUE
  /\ hist' = NoteOp("close", vad')
  /\ UNCHANGED <<sileroVAD, processingQueue, inflight, flushWaiters, capture, oracle, rta>>

(* The session is released: SileroVAD.close() and AudioProcessor.close()   *)
(* run to their ends.                                                      *)
CloseResume ==
  /\ closing
  /\ vad' = closeEnd(vad)
  /\ sileroVAD' = FALSE
  /\ closing' = FALSE
  /\ UNCHANGED <<processingQueue, inflight, flushWaiters, capture, oracle, rta, hist>>

(* A run whose chunk lengths vary from call to call, with an oracle that  *)
(* always answers "no speech": the reassembly of frames alone.             *)
InitChunks ==
  /\ vad = NewSileroVAD(SmallConfig)
  /\ sileroVAD = TRUE
  /\ processingQueue = <<>>
  /\ inflight = <<>>
  /\ flushWaiters = <<>>
  /\ closing = FALSE
  /\ capture = [sizes |-> MixedSizes, captured |-> 0, budget |-> MaxMixedChunks]
  /\ oracle = {20}
  /\ rta = NewRTA
  /\ hist = InitHist

(* A run in which an oracle call may be rejected. *)
InitFaults ==
  /\ vad = NewSileroVAD(SmallConfig)
  /\ sileroVAD = TRUE
  /\ processingQueue = <<>>
  /\ inflight = <<>>
  /\ flushWaiters = <<>>
  /\ closing = FALSE
  /\ capture \in {[sizes |-> {n}, captured |-> 0, budget |-> MaxFaultChunks] : n \in ChunkSizes}
  /\ oracle = Probs \cup {Fail}
  /\ rta = NewRTA
  /\ hist = InitHist

(***************************************************************************)
(* A caller that holds the SileroVAD instance itself: it may have skipped  *)
(* initialize(), awaits each process() call before the next, and may close *)
(* the instance and go on calling.                                         *)
(***************************************************************************)
InitDirect ==
  /\ vad \in {Constructed(SmallConfig), NewSileroVAD(SmallConfig)}
  /\ sileroVAD = FALSE
  /\ processingQueue = <<>>
  /\ inflight = <<>>
  /\ flushWaiters = <<>>
  /\ closing = FALSE
  /\ capture \in {[sizes |-> {n}, captured |-> 0, budget |-> MaxDirectChunks] : n \in ChunkSizes}
  /\ oracle = Probs
  /\ rta = NewRTA
  /\ hist = InitHist

SileroVAD_initialize ==
  /\ ~vad.session
  /\ hist.ops = <<>>
  /\ vad' = initialize(vad)
  /\ UNCHANGED <<sileroVAD, processingQueue, inflight, flushWaiters, closing,
                 capture, oracle, rta, hist>>

SileroVAD_process ==
  \E n \in capture.sizes :
    LET h == [hist EXCEPT !.nChunks = @ + 1]
        item == [audioData |-> <<[lo |-> capture.captured, n |-> n]>>,
                 timestamp |-> ((capture.captured + n) * 1000) \div SampleRate,
                 seq |-> h.nChunks]
    IN /\ hist.nChunks < capture.budget
       /\ inflight = <<>>
       /\ capture' = [capture EXCEPT !.captured = @ + n]
       /\ CallProcess(item, h)
       /\ UNCHANGED <<sileroVAD, processingQueue, flushWaiters, closing, oracle, rta>>

SileroVAD_close ==
  /\ Len(hist.ops) < MaxOps
  /\ vad.session
  /\ ~closing
  /\ vad' = closeBegin(vad)
  /\ closing' = TRUE
  /\ hist' = NoteOp("close", vad')
  /\ UNCHANGED <<sileroVAD, processingQueue, inflight, flushWaiters, capture, oracle, rta>>

SileroVAD_closeResume ==
  /\ closing
  /\ vad' = closeEnd(vad)
  /\ closing' = FALSE
  /\ UNCHANGED <<sileroVAD, processingQueue, inflight, flushWaiters, capture,
                 oracle, rta, hist>>

(* A run with drains, in which an oracle call may be rejected: chunks that *)
(* complete no frame or two of them, and an oracle that answers "speech"   *)
(* or fails.                                                               *)
DrainSizes == {320, 960}
DrainAnswers == {40, Fail}

InitDrain ==
  /\ vad = NewSileroVAD(SmallConfig)
  /\ sileroVAD = TRUE
  /\ processingQueue = <<>>
  /\ inflight = <<>>
  /\ flushWaiters = <<>>
  /\ closing = FALSE
  /\ capture \in {[sizes |-> {n}, captured |-> 0, budget |-> MaxDrainChunks] : n \in DrainSizes}
  /\ oracle = DrainAnswers
  /\ rta = NewRTA
  /\ hist = InitHist

NextDrain ==
  \/ Capture
  \/ ProcessQueue
  \/ OracleReturn
  \/ OracleReject
  \/ AudioProcessor_waitForVADQueue
  \/ WaitForQueueEmptyResume
  \/ AudioProcessor_flushAsync
  \/ FlushAsyncResume

NextDirect ==
  \/ SileroVAD_initialize
  \/ SileroVAD_process
  \/ OracleReturn
  \/ SileroVAD_close
  \/ SileroVAD_closeResume

(* Partial configurations a caller may pass to updateConfig (thresholds in *)
(* percent): a valid one, a positive threshold below the active negative   *)
(* one, equal thresholds, and thresholds outside [0, 1].                   *)
ConfigUpdates ==
  {[positiveSpeechThreshold |-> 40],
   [positiveSpeechThreshold |-> 20],
   [positiveSpeechThreshold |-> 27, negativeSpeechThreshold |-> 27],
   [negativeSpeechThreshold |-> 0 - 10],
   [positiveSpeechThreshold |-> 120]}

(* AudioProcessor.updateConfig(config) with config.vad given. *)
AudioProcessor_updateConfig ==
  \E config \in ConfigUpdates :
    /\ Len(hist.ops) < MaxOps
    /\ sileroVAD
    /\ vad' = updateConfig(vad, config)
    /\ hist' = NoteOp("updateConfig", vad')
    /\ UNCHANGED <<sileroVAD, processingQueue, inflight, flushWaiters, closing,
                   capture, oracle, rta>>

NextConfig ==
  \/ Capture
  \/ ProcessQueue
  \/ OracleReturn
  \/ AudioProcessor_updateConfig

(* A run in which the handlers registered for the engine's events may     *)
(* throw.                                                                  *)
Handlers ==
  UNION {[1 .. k -> {"ok", "throws"}] : k \in 1 .. MaxListeners}

(* Handlers of which some are registered with once(). *)
OnceHandlers ==
  UNION {[1 .. k -> {"ok", "once", "onceThrows"}] : k \in 1 .. MaxListeners}

InitOnce ==
  /\ vad \in {on(NewSileroVAD(SmallConfig), handlers) : handlers \in OnceHandlers}
  /\ sileroVAD = TRUE
  /\ processingQueue = <<>>
  /\ inflight = <<>>
  /\ flushWaiters = <<>>
  /\ closing = FALSE
  /\ capture \in {[sizes |-> {n}, captured |-> 0, budget |-> MaxListenerChunks] : n \in ChunkSizes}
  /\ oracle = SpeechOrSilence
  /\ rta = NewRTA
  /\ hist = InitHist

InitListeners ==
  /\ vad \in {on(NewSileroVAD(SmallConfig), handlers) : handlers \in Handlers}
  /\ sileroVAD = TRUE
  /\ processingQueue = <<>>
  /\ inflight = <<>>
  /\ flushWaiters = <<>>
  /\ closing = FALSE
  /\ capture \in {[sizes |-> {n}, captured |-> 0, budget |-> MaxListenerChunks] : n \in ChunkSizes}
  /\ oracle = Probs
  /\ rta = NewRTA
  /\ hist = InitHist

NextStream ==
  \/ Capture
  \/ ProcessQueue
  \/ OracleReturn

Next ==
  \/ Capture
  \/ ProcessQueue
  \/ OracleReturn
  \/ AudioProcessor_flush
  \/ AudioProcessor_resetVAD
  \/ AudioProcessor_flushAsync
  \/ FlushAsyncResume
  \/ AudioProcessor_close
  \/ CloseResume

NextFaults ==
  \/ Capture
  \/ ProcessQueue
  \/ OracleReturn
  \/ OracleReject

Spec == Init /\ [][Next]_vars

SpecFaults == InitFaults /\ [][NextFaults]_vars

(* The scheduling the drain relies on, as weak fairness: the queue's       *)
(* consumer takes the next chunk whenever it is idle, every oracle call    *)
(* completes, by an answer or by a rejection, and a promise that can       *)
(* resolve does.  For the first two, WF_vars(A) is written out as          *)
(* "infinitely often A is disabled, or infinitely often A happens", with   *)
(* the enabling condition of A spelled out: ProcessQueue is enabled        *)
(* exactly when a chunk is queued and nothing is in flight, an oracle      *)
(* completion exactly when an invocation is in flight.                     *)
ConsumerIsFair ==
  \/ []<>~(processingQueue # <<>> /\ inflight = <<>>)
  \/ []<><<ProcessQueue>>_vars

OracleCompletes ==
  \/ []<>(inflight = <<>>)
  \/ []<><<OracleReturn \/ OracleReject>>_vars

SpecDrain ==
  /\ InitDrain
  /\ [][NextDrain]_vars
  /\ ConsumerIsFair
  /\ OracleCompletes
  /\ WF_vars(WaitForQueueEmptyResume)
  /\ WF_vars(FlushAsyncResume)

SpecDirect == InitDirect /\ [][NextDirect]_vars

SpecConfig == Init /\ [][NextConfig]_vars

SpecListeners == InitListeners /\ [][NextStream]_vars

SpecOnce == InitOnce /\ [][NextStream]_vars

SpecStream == InitStream /\ [][NextStream]_vars

SpecChunks == InitChunks /\ [][NextStream]_vars

(* A silenceDuration that is not a whole number of frames, as the default  *)
(* 1400 ms is not (43.75 frames): here two and a half frames.              *)
SilenceConfig == [SmallConfig EXCEPT !.silenceDuration = 80]

InitSilence ==
  /\ vad = NewSileroVAD(SilenceConfig)
  /\ sileroVAD = TRUE
  /\ processingQueue = <<>>
  /\ inflight = <<>>
  /\ flushWaiters = <<>>
  /\ closing = FALSE
  /\ capture \in {[sizes |-> {n}, captured |-> 0, budget |-> MaxStreamChunks] : n \in ChunkSizes}
  /\ oracle = Probs
  /\ rta = NewRTA
  /\ hist = InitHist

SpecSilence == InitSilence /\ [][NextStream]_vars

EndSizes == {320, frameSize}
EndAnswers == {20, 40}

(* A stream long enough for utterances to end by silence, with flush()     *)
(* calls that force an end in between.                                     *)
NextEnds ==
  \/ Capture
  \/ ProcessQueue
  \/ OracleReturn
  \/ AudioProcessor_flush

InitEnds ==
  /\ vad = NewSileroVAD(SmallConfig)
  /\ sileroVAD = TRUE
  /\ processingQueue = <<>>
  /\ inflight = <<>>
  /\ flushWaiters = <<>>
  /\ closing = FALSE
  /\ capture \in {[sizes |-> {n}, captured |-> 0, budget |-> MaxEndChunks] : n \in EndSizes}
  /\ oracle = EndAnswers
  /\ rta = NewRTA
  /\ hist = InitHist

SpecEnds == InitEnds /\ [][NextEnds]_vars

(* AudioProcessor.processSync (deprecated, public): awaits                 *)
(* SileroVAD.process directly, past the queue; a caller that does not wait *)
(* for the promise has several invocations suspended at once.              *)
AudioProcessor_processSync ==
  \E n \in capture.sizes :
    LET h == [hist EXCEPT !.nChunks = @ + 1]
        item == [audioData |-> <<[lo |-> capture.captured, n |-> n]>>,
                 timestamp |-> ((capture.captured + n) * 1000) \div SampleRate,
                 seq |-> h.nChunks]
    IN /\ hist.nChunks < capture.budget
       /\ Len(inflight) < MaxPending
       /\ sileroVAD
       /\ capture' = [capture EXCEPT !.captured = @ + n]
       /\ CallProcess(item, h)
       /\ UNCHANGED <<sileroVAD, processingQueue, flushWaiters, closing, oracle, rta>>

NextSync ==
  \/ AudioProcessor_processSync
  \/ OracleReturn

InitSync ==
  /\ vad = NewSileroVAD(SmallConfig)
  /\ sileroVAD = TRUE
  /\ processingQueue = <<>>
  /\ inflight = <<>>
  /\ flushWaiters = <<>>
  /\ closing = FALSE
  /\ capture \in {[sizes |-> {n}, captured |-> 0, budget |-> MaxSyncChunks] : n \in ChunkSizes}
  /\ oracle = SpeechOrSilence
  /\ rta = NewRTA
  /\ hist = InitHist

SpecSync == InitSync /\ [][NextSync]_vars

(* A stream with the engine's other operations called in between: flush,  *)
(* reset, updateConfig and close.                                          *)
NextOps ==
  \/ Capture
  \/ ProcessQueue
  \/ OracleReturn
  \/ AudioProcessor_flush
  \/ AudioProcessor_resetVAD
  \/ AudioProcessor_updateConfig
  \/ AudioProcessor_close
  \/ CloseResume

InitOps ==
  /\ vad = NewSileroVAD(SmallConfig)
  /\ sileroVAD = TRUE
  /\ processingQueue = <<>>
  /\ inflight = <<>>
  /\ flushWaiters = <<>>
  /\ closing = FALSE
  /\ capture \in {[sizes |-> {n}, captured |-> 0, budget |-> MaxOpsChunks] : n \in ChunkSizes}
  /\ oracle = SpeechOrSilence
  /\ rta = NewRTA
  /\ hist = InitHist

SpecOps == InitOps /\ [][NextOps]_vars

(***************************************************************************)
(* Properties.                                                             *)
(***************************************************************************)
Last(q) == q[Len(q)]

EventsOf(type) == {i \in DOMAIN vad.delivered : vad.delivered[i].type = type}

FramesFed == ArrLen(hist.fed) \div frameSize

(* A process() invocation returns in this step. *)
Completes == hist'.nDone = hist.nDone + 1

(* The probability that invocation passes to updateVADState: the average   *)
(* of its frames, or the last known probability when it completed none.    *)
StepFinal ==
  IF inflight # <<>>
  THEN Rat(inflight[1].totalProbability + vad'.lastProbability.n,
           inflight[1].frameCount + 1)
  ELSE vad.lastProbability

(* This step delivers exactly one event, of the given type. *)
Delivers(type) ==
  /\ Len(vad'.delivered) = Len(vad.delivered) + 1
  /\ SubSeq(vad'.delivered, 1, Len(vad.delivered)) = vad.delivered
  /\ Last(vad'.delivered).type = type

DeliversNothing == vad'.delivered = vad.delivered

(* C1: from the initial Silence, as long as every oracle answer has been   *)
(* below negativeSpeechThreshold, the engine is in Silence after every     *)
(* step and no speech-start or speech-end has been emitted.                *)
C1_SilentWhileBelowNegative ==
  hist.allBelow => vad.state = "silence" /\ vad.delivered = <<>>

C1_Witness ==
  /\ hist.allBelow
  /\ FramesFed >= 4
  /\ inflight = <<>>
  /\ hist.nDone >= 3

(* C2 (as claimed): while an utterance is confirmed (Speaking or           *)
(* PotentialEnd) exactly one speech-start has been emitted for it, and its *)
(* timestamp is speechStartTime, the timestamp of the first chunk whose    *)
(* probability exceeded positiveSpeechThreshold.                           *)
C2_StartStampedAtSpeechStartTime ==
  vad.state \in {"speaking", "potential_end"} =>
    /\ Cardinality(EventsOf("speech-start")) = Cardinality(EventsOf("speech-end")) + 1
    /\ Last(vad.delivered).type = "speech-start"
    /\ Last(vad.delivered).timestamp = vad.speechStartTime

(* C3 (as claimed): a speech-end emitted because silence lasted            *)
(* silenceDuration is the only event of its step, carries a segment, and   *)
(* the segment's audio is one gap-free stretch of the stream that ends     *)
(* with the last sample handed to process().                               *)
C3_NaturalEndCarriesWholeSegment ==
  [][(Len(vad'.delivered) > Len(vad.delivered)
        /\ Last(vad'.delivered).type = "speech-end")
     => /\ Delivers("speech-end")
        /\ Last(vad'.delivered).segment # <<>>
        /\ LET audio == Last(vad'.delivered).segment[1].audioData
           IN /\ Len(audio) = 1
              /\ audio[1].lo + audio[1].n = ArrLen(hist'.consumed)]_vars

StreamSoFar ==
  IF capture.captured = 0 THEN EmptyArr
  ELSE <<[lo |-> 0, n |-> capture.captured]>>

Queued == ConcatAll([i \in DOMAIN processingQueue |-> processingQueue[i].audioData])

LeftOver ==
  IF inflight = <<>> THEN vad.sampleBuffer
  ELSE SliceFrom(inflight[1].combinedAudio, inflight[1].offset + frameSize)

C5_ReassemblyRoundTrip ==
  /\ hist.frameLens \subseteq {frameSize}
  /\ ArrLen(vad.sampleBuffer) < frameSize
  /\ Concat(hist.fed, LeftOver) = hist.consumed
  /\ Concat(hist.consumed, Queued) = StreamSoFar

C5_Witness ==
  /\ inflight = <<>>
  /\ processingQueue = <<>>
  /\ hist.nDone = MaxMixedChunks
  /\ FramesFed >= 3
  /\ ArrLen(vad.sampleBuffer) > 0
  /\ \E i, j \in DOMAIN vad.audioBuffer :
       ArrLen(vad.audioBuffer[i]) # ArrLen(vad.audioBuffer[j])

(* The step is a call of the named operation. *)
Calls(name) ==
  /\ Len(hist'.ops) = Len(hist.ops) + 1
  /\ Last(hist'.ops).op = name

CalledFrom(name, states) ==
  \E i \in DOMAIN hist.ops : hist.ops[i].op = name /\ hist.ops[i].from \in states

C7_AsyncFlushAfterDrain ==
  /\ \A i \in DOMAIN hist.cause :
       hist.cause[i].by = "flushAsync" => hist.cause[i].behind = 0
  /\ \A i, j \in DOMAIN hist.cause :
       (i < j /\ hist.cause[i].by = "process" /\ hist.cause[j].by = "process")
         => hist.cause[i].seq <= hist.cause[j].seq
  /\ \A w \in DOMAIN flushWaiters :
       flushWaiters[w].enq <= hist.nChunks

(* The call came before speech was confirmed, the forced speech-end after: *)
(* chunks pending at the call were processed in between.                   *)
C7_Witness ==
  /\ CalledFrom("flushAsync", {"silence", "potential_start"})
  /\ hist.cause # <<>>
  /\ Last(hist.cause).by = "flushAsync"
  /\ Last(vad.delivered).type = "speech-end"

(* C8: reset(), whatever the segmentation state, leaves the engine in      *)
(* Silence with an empty chunk buffer, an empty sample remainder, zeroed   *)
(* accumulators and a zero recurrent state; a second reset() changes       *)
(* nothing.                                                                *)
C8_ResetClearsAndIsIdempotent ==
  [][Calls("reset")
     => /\ vad'.state = "silence"
        /\ vad'.audioBuffer = <<>>
        /\ vad'.sampleBuffer = EmptyArr
        /\ vad'.potentialSpeechDurationMs = 0
        /\ vad'.potentialSilenceDurationMs = 0
        /\ vad'.speechStartTime = 0
        /\ vad'.speechEndCandidateTime = 0
        /\ vad'.speechStartBufferIndex = 0
        /\ vad'.lastProbability = ZeroProbability
        /\ vad'.lastTimestamp = 0
        /\ vad'.stateTensor = ZeroTensor
        /\ DeliversNothing
        /\ reset(vad') = vad']_vars

C8_Witness ==
  /\ CalledFrom("reset", {"potential_end"})
  /\ hist.nDone >= 3
  /\ vad.state = "silence"
  /\ vad.stateTensor = ZeroTensor

(* C9: flush() called in Speaking or PotentialEnd emits, in that very      *)
(* call and whatever is still queued or in flight, exactly one speech-end  *)
(* carrying the last known probability, and leaves the engine in Silence;  *)
(* called in Silence it emits nothing and changes nothing.  (What the      *)
(* event carries as its segment is not part of this property.)             *)
C9_SyncFlushFinalizesAtOnce ==
  [][Calls("flush")
     => /\ vad.state \in {"speaking", "potential_end"}
             => /\ Delivers("speech-end")
                /\ Last(vad'.delivered).probability = vad.lastProbability
                /\ ~Last(vad'.delivered).isSpeech
                /\ vad'.state = "silence"
        /\ vad.state = "silence" => vad' = vad
        /\ UNCHANGED <<processingQueue, inflight>>]_vars

C9_Witness ==
  /\ CalledFrom("flush", {"speaking", "potential_end"})
  /\ Last(hist.cause).by = "flush"
  /\ Last(vad.delivered).type = "speech-end"
  /\ inflight # <<>>

(* C10 (as claimed): close() called while speech is in progress and has    *)
(* lasted at least minSpeechDuration delivers a speech-end that carries a  *)
(* segment with non-empty audio.                                           *)
C10_CloseDeliversSegment ==
  [][(Calls("close")
        /\ vad.state \in {"speaking", "potential_end"}
        /\ vad.lastTimestamp - vad.speechStartTime >= vad.config.minSpeechDuration)
     => /\ Delivers("speech-end")
        /\ Last(vad'.delivered).segment # <<>>
        /\ ArrLen(Last(vad'.delivered).segment[1].audioData) > 0]_vars

(* C11: flush() called in PotentialStart discards the pending             *)
(* accumulation: the engine is in Silence afterwards with the speech       *)
(* accumulator and the tentative start time cleared, and no speech-start   *)
(* or speech-end is emitted by the call.                                   *)
C11_FlushDiscardsPotentialStart ==
  [][(Calls("flush") /\ vad.state = "potential_start")
     => /\ vad'.state = "silence"
        /\ vad'.potentialSpeechDurationMs = 0
        /\ vad'.potentialSilenceDurationMs = 0
        /\ vad'.speechStartTime = 0
        /\ vad'.speechStartBufferIndex = 0
        /\ DeliversNothing
        /\ vad'.audioBuffer = vad.audioBuffer
        /\ vad'.sampleBuffer = vad.sampleBuffer]_vars

C11_Witness ==
  /\ CalledFrom("flush", {"potential_start"})
  /\ hist.trail = <<"silence", "potential_start", "silence">>
  /\ vad.delivered = <<>>
  /\ hist.nDone >= 1

(* What C12 calls the engine state. *)
EngineState(v) ==
  [state |-> v.state,
   potentialSpeechDurationMs |-> v.potentialSpeechDurationMs,
   potentialSilenceDurationMs |-> v.potentialSilenceDurationMs,
   audioBuffer |-> v.audioBuffer,
   sampleBuffer |-> v.sampleBuffer,
   stateTensor |-> v.stateTensor]

Rejects == hist'.failed = hist.failed + 1

(* C12 (as claimed): when the oracle call of a frame is rejected, the      *)
(* process() call fails, and the segmentation state, the duration          *)
(* accumulators, the chunk buffer, the sample remainder and the recurrent  *)
(* state are what they were before that process() call.                    *)
C12_OracleFailureLeavesStateUnchanged ==
  [][Rejects
     => /\ hist'.last[1].result = "reject"
        /\ EngineState(vad') = EngineState(hist.last[1].before[1])]_vars

(* A process() call is made in this step. *)
CallsProcess == Len(hist'.started) = Len(hist.started) + 1

Uninitialized(v) == ~v.session \/ v.stateTensor = NullTensor

(* C13 (as claimed): process() called on an instance whose session or      *)
(* recurrent state is not set up (initialize() not yet run, or close()     *)
(* already run) fails with the not-initialized error and changes nothing   *)
(* of the instance, whatever the length of the chunk.                      *)
C13_NotInitializedFailsCleanly ==
  [][(CallsProcess /\ Uninitialized(vad))
     => /\ hist'.last # <<>>
        /\ hist'.last[1].result = "throw"
        /\ vad' = vad]_vars

ValidThresholds(config) ==
  /\ config.positiveSpeechThreshold \in 0 .. 100
  /\ config.negativeSpeechThreshold \in 0 .. 100
  /\ config.negativeSpeechThreshold < config.positiveSpeechThreshold

(* C14 (as claimed): an update that would put a threshold outside [0, 1]   *)
(* or make the negative threshold reach the positive one is rejected and   *)
(* the active configuration stays as it was; hence in every reachable      *)
(* state both thresholds are in [0, 1] and negative < positive.            *)
C14_InvalidThresholdsRejected ==
  [][/\ ValidThresholds(vad'.config)
     /\ (Calls("updateConfig") /\ vad'.config # vad.config)
          => \E config \in ConfigUpdates :
               /\ vad'.config = updateConfig(vad, config).config
               /\ ValidThresholds(updateConfig(vad, config).config)]_vars

(* C15: whichever handlers throw, every registered handler has been called *)
(* once for every emission, no exception has left emit, and the step that  *)
(* emitted completed its transition: Speaking after a speech-start,        *)
(* Silence with cleared accumulators after a speech-end.                   *)
C15_ListenerFailuresIsolated ==
  [][/\ ~vad'.escaped
     /\ \A i \in DOMAIN vad'.listeners : vad'.invoked[i] = Len(vad'.delivered)
     /\ Delivers("speech-start") => vad'.state = "speaking"
     /\ Delivers("speech-end")
          => /\ vad'.state = "silence"
             /\ vad'.potentialSilenceDurationMs = 0
             /\ vad'.speechStartTime = 0]_vars

C15_Witness ==
  /\ Len(vad.listeners) = 2
  /\ vad.listeners[1] = "throws"
  /\ vad.listeners[2] = "ok"
  /\ Len(vad.delivered) = 2
  /\ vad.invoked[2] = 2
  /\ Last(vad.delivered).type = "speech-end"

(* The timestamp of the chunk whose invocation takes this step. *)
StepTimestamp ==
  IF inflight # <<>> THEN inflight[1].timestamp
  ELSE Head(processingQueue).timestamp

(* What reaches the subscribers of RealtimeAudioSDK for a 'vad-result' of  *)
(* the engine: AudioProcessor's emissions, each passed through RTA's       *)
(* handler.                                                                *)
ForwardedVadResults(data) ==
  LET a == AudioProcessor_onVadResult(data)
  IN [i \in DOMAIN a |-> RTA_onVadResult(a[i]).emitted[1]]

RetentionLimit(v, chunkLength) == CeilDiv(PrePadSamples(v), chunkLength) * 2

ChunkLength == CHOOSE n \in capture.sizes : TRUE

SegmentPayload(data) ==
  [audio |-> data.segment[1].audioData,
   startTime |-> data.segment[1].start,
   endTime |-> data.segment[1].end,
   duration |-> data.segment[1].duration,
   avgProbability |-> data.probability,
   confidence |-> calculateConfidence(data.probability)]

(* C18 (as claimed): the 'speech-state' event of type 'end' that           *)
(* AudioProcessor emits for a speech-end of the engine carries the segment *)
(* payload when the engine finalized a segment, and no segment otherwise.  *)
C18_EndEventCarriesSegment ==
  \A i \in EventsOf("speech-end") :
    LET data == vad.delivered[i]
        event == AudioProcessor_onSpeechEvent(data)[1]
    IN /\ event.name = "speech-state"
       /\ event.type = "end"
       /\ event.segment = IF data.segment # <<>>
                          THEN <<SegmentPayload(data)>> ELSE <<>>

(* The 'speech-segment' events AudioProcessor has emitted. *)
SegmentEvents ==
  {e \in UNION {{AudioProcessor_onSpeechEvent(vad.delivered[i])[j] :
                   j \in DOMAIN AudioProcessor_onSpeechEvent(vad.delivered[i])} :
                i \in DOMAIN vad.delivered} :
     e.name = "speech-segment"}

(* C19 (as claimed): every emitted segment has duration > 0,               *)
(* endTime > startTime and duration = endTime - startTime, in              *)
(* milliseconds.                                                           *)
C19_SegmentTimesConsistent ==
  \A e \in SegmentEvents :
    /\ e.duration > 0
    /\ e.endTime > e.startTime
    /\ e.duration = e.endTime - e.startTime

(* A chunk is captured in this step: handleAudioFrame ran and emitted its *)
(* 'audio' event.                                                          *)
Captures == capture'.captured # capture.captured

Drains == flushWaiters # <<>> /\ flushWaiters' = Tail(flushWaiters)

OracleAnswers ==
  /\ inflight # <<>>
  /\ vad'.lastProbability # vad.lastProbability \/ vad'.stateTensor # vad.stateTensor
       \/ hist'.nDone > hist.nDone \/ hist'.fed # hist.fed

(* C22 (as claimed): reset() removes nothing from the queue and does not   *)
(* disturb the order of processing, and a chunk enqueued before the reset  *)
(* that is processed after it is processed against the post-reset state:   *)
(* the oracle's answer for it continues the recurrent state the engine has *)
(* now, the one the reset zeroed.                                          *)
C22_QueuedChunksMeetResetState ==
  /\ [](\A i \in DOMAIN hist.started : hist.started[i] = i)
  /\ [][/\ Calls("reset") => UNCHANGED <<processingQueue, inflight>>
        /\ (OracleAnswers /\ CalledFrom("reset", {"silence", "potential_start",
                                                  "speaking", "potential_end"}))
             => /\ inflight[1].stateIn = vad.stateTensor
                /\ vad'.stateTensor = <<vad.stateTensor[1] + 1>>]_vars

(* close() runs to its end in this step. *)
Closes == closing /\ ~closing'

(* C23 (as claimed): when close() has run, the instance holds no session   *)
(* and no recurrent state, its chunk buffer and its sample remainder are   *)
(* empty, the speech-end of a segment in progress was delivered before the *)
(* handlers were removed, and a second close() changes nothing and emits   *)
(* nothing.                                                                *)
C23_CloseReleasesAndClears ==
  [][Closes
     => /\ ~vad'.session
        /\ vad'.stateTensor = NullTensor
        /\ vad'.listeners = <<>>
        /\ vad'.state = "silence"
        /\ vad'.audioBuffer = <<>>
        /\ vad'.sampleBuffer = EmptyArr
        /\ closeEnd(closeBegin(vad')) = vad']_vars

(* The latest setState changed the state, and `op` made it. *)
ChangedBy(op) ==
  /\ rta.change # <<>>
  /\ rta.change[1].op = op
  /\ rta.change[1].from # rta.change[1].to

(* C24 (as claimed): pause() changes the state only from recording, to     *)
(* paused; resume() only from paused, to recording; start() called while   *)
(* recording does nothing; stop() called while idle does nothing and       *)
(* otherwise leaves the state idle, or error when stopping failed; and     *)
(* every change of the state comes with exactly one 'state' event that     *)
(* carries the new state.                                                  *)
C24_LifecycleTransitions ==
  /\ [](/\ ChangedBy("pause")
             => rta.change[1].from = "recording" /\ rta.change[1].to = "paused"
        /\ ChangedBy("resume")
             => rta.change[1].from = "paused" /\ rta.change[1].to = "recording"
        /\ ChangedBy("stop") => rta.change[1].to \in {"idle", "error"})
  /\ [][/\ rta'.state # rta.state
             => /\ rta'.events.n = rta.events.n + 1
                /\ rta'.events.last = <<rta'.state>>
        /\ (rta'.nCalls # rta.nCalls /\ Len(rta'.pending) = Len(rta.pending)
              /\ rta'.deviceId = rta.deviceId)
             => rta' = Called(rta)]_vars

(* switchDevice settles after its rollback: the setDevice call suspended   *)
(* at the rollback start(oldOptions) is the one that continues.            *)
RollbackSettles(i) ==
  /\ i \in ReadyAt("setDevice", "rollback")
  /\ rta'.pending = Resumed(rta, i).pending
  /\ ~rta'.isSwitchingDevice

(* C25 (as claimed): when the switch to the new device has failed and      *)
(* capture runs again on the previous device, setDevice rejects with code  *)
(* DEVICE_SWITCH_FAILED_ROLLBACK_SUCCESS and the 'switch-failed' device    *)
(* event has rolledBack = true; the code is                                *)
(* DEVICE_SWITCH_FAILED_ROLLBACK_FAILED, with rolledBack = false, only     *)
(* when the rollback has failed too.                                       *)
C25_RollbackOutcomeReported ==
  [][\A i \in DOMAIN rta.pending :
       RollbackSettles(i) =>
         LET rolledBack == rta'.isCapturing /\ rta'.currentOptions = rta.pending[i].old
             event == rta'.deviceEvent[1]
             outcome == rta'.settled[1]
         IN /\ outcome.result = "rejected"
            /\ event.type = "switch-failed"
            /\ event.deviceId = rta.pending[i].device[1]
            /\ rolledBack => /\ outcome.code = "DEVICE_SWITCH_FAILED_ROLLBACK_SUCCESS"
                             /\ event.rolledBack = <<TRUE>>
            /\ outcome.code = "DEVICE_SWITCH_FAILED_ROLLBACK_FAILED"
                 => ~rolledBack /\ event.rolledBack = <<FALSE>>]_vars

(* A process() call is made and returns in the same step: the chunk,       *)
(* joined to the remainder, completed no frame.                            *)
CompletesNoFrame == CallsProcess /\ Completes /\ hist'.last = <<>>

(* C26 (as claimed): a chunk that completes no frame only grows the        *)
(* remainder: nothing is handed to the oracle, the segmentation state and  *)
(* the speech and silence accumulators stay as they were, and no           *)
(* speech-start or speech-end is emitted.                                  *)
C26_ZeroFrameChunkOnlyGrowsRemainder ==
  [][CompletesNoFrame
     => /\ hist'.fed = hist.fed
        /\ ArrLen(vad'.sampleBuffer) = ArrLen(vad.sampleBuffer)
                                         + ArrLen(hist'.consumed) - ArrLen(hist.consumed)
        /\ vad'.state = vad.state
        /\ vad'.potentialSpeechDurationMs = vad.potentialSpeechDurationMs
        /\ vad'.potentialSilenceDurationMs = vad.potentialSilenceDurationMs
        /\ DeliversNothing]_vars

(* The probabilities the oracle gave for the frames of the process() call  *)
(* that returns in this step, in order: a call completes at most two       *)
(* frames (a remainder below 512 samples and a chunk of at most 960), the  *)
(* earlier one is the running total, the later one is lastProbability.     *)
OwnProbabilities ==
  IF CompletesNoFrame THEN <<>>
  ELSE IF inflight[1].frameCount = 0 THEN <<vad'.lastProbability>>
  ELSE <<Rat(inflight[1].totalProbability, 1), vad'.lastProbability>>

(* The state machine stepped once per frame, each step with the frame's    *)
(* own probability and one frame's duration.                               *)
RECURSIVE FrameByFrame(_, _, _)
FrameByFrame(v, probabilities, timestamp) ==
  IF probabilities = <<>> THEN v
  ELSE FrameByFrame(updateVADState(v, Head(probabilities), timestamp, FrameDurationMs),
                    Tail(probabilities), timestamp)

SpeechEvents(v) ==
  LET speech == SelectSeq(v.delivered,
                          LAMBDA e : e.type \in {"speech-start", "speech-end"})
  IN [i \in DOMAIN speech |-> speech[i].type]

(* C27 (as claimed): a process() call that completed frames steps the     *)
(* state machine exactly once per frame, with that frame's own             *)
(* probability, so the segmentation state, the accumulators and the        *)
(* speech-start / speech-end events after the call are those of feeding    *)
(* the same frames one by one, whatever the chunk sizes (320, 512, 960).   *)
(* Calls that complete no frame are the subject of C26.                    *)
C27_EventsIndependentOfChunking ==
  [][(Completes /\ hist'.last = <<>> /\ ~CompletesNoFrame)
     => LET byFrame == FrameByFrame(vad, OwnProbabilities, vad'.lastTimestamp)
        IN /\ vad'.state = byFrame.state
           /\ vad'.potentialSpeechDurationMs = byFrame.potentialSpeechDurationMs
           /\ vad'.potentialSilenceDurationMs = byFrame.potentialSilenceDurationMs
           /\ SpeechEvents(vad') = SpeechEvents(byFrame)]_vars

(* The events delivered in this step. *)
NewEvents == (Len(vad.delivered) + 1) .. Len(vad'.delivered)

(* C28: every speech-end, whether silence ended the utterance or a flush   *)
(* or close forced it, carries a segment exactly when its end time minus   *)
(* speechStartTime is at least minSpeechDuration; when it is shorter the   *)
(* speech-end is emitted all the same, without segment; either way the     *)
(* engine is in Silence afterwards.                                        *)
C28_SegmentIffLongEnough ==
  [][\A i \in NewEvents :
       vad'.delivered[i].type = "speech-end"
         => /\ vad'.delivered[i].segment # <<>>
                 <=> (vad'.delivered[i].timestamp - vad.speechStartTime
                        >= vad.config.minSpeechDuration)
            /\ vad'.state = "silence"]_vars

(* Two utterances have ended: silence ended the first, which has its       *)
(* segment; a flush forced the end of the second, too short for one.       *)
C28_Witness ==
  \E i, j \in EventsOf("speech-end") :
    /\ i < j
    /\ hist.cause[i].by = "process"
    /\ vad.delivered[i].segment # <<>>
    /\ hist.cause[j].by = "flush"
    /\ vad.delivered[j].segment = <<>>
    /\ vad.state = "silence"

(* C29 (as claimed): the frame that takes the engine from Speaking to      *)
(* PotentialEnd leaves its timestamp in speechEndCandidateTime and counts  *)
(* as the first frameDuration of silence; the speech-end emitted when the  *)
(* silence has reached silenceDuration carries that candidate time as      *)
(* timestamp and the probability of the frame that finalized it.           *)
C29_NaturalEndStampedAtCandidate ==
  [][Completes
     => /\ (vad.state = "speaking" /\ vad'.state = "potential_end")
             => /\ vad'.speechEndCandidateTime = vad'.lastTimestamp
                /\ vad'.potentialSilenceDurationMs = FrameDurationMs
        /\ \A i \in NewEvents :
             vad'.delivered[i].type = "speech-end"
               => /\ vad.state = "potential_end"
                  /\ vad'.delivered[i].timestamp = vad.speechEndCandidateTime
                  /\ vad'.delivered[i].probability = vad'.lastProbability]_vars

(* The frames handed to the oracle since the silence run began, as audio   *)
(* time: the run began in the process() call whose chunk is stamped        *)
(* speechEndCandidateTime, and the frames completed before that chunk came *)
(* are those of the samples received before it.                            *)
SilenceHeardMs ==
  LET n == CHOOSE size \in capture.sizes : TRUE
      before == (vad.speechEndCandidateTime * SampleRate) \div 1000 - n
  IN (ArrLen(hist'.fed) \div frameSize - before \div frameSize) * FrameDurationMs

(* C30 (as claimed): process() emits speech-end, and returns to Silence,   *)
(* only from PotentialEnd, on a chunk below negativeSpeechThreshold, and   *)
(* only when the silence heard in one run since the engine left Speaking   *)
(* lasts at least silenceDuration; the run starts anew every time the      *)
(* engine leaves Speaking; a chunk above positiveSpeechThreshold before    *)
(* that takes the engine back to Speaking with the silence accumulator and *)
(* the candidate time reset and emits no event.                            *)
C30_EndOnlyAfterContinuousSilence ==
  [][Completes
     => /\ vad'.state = "speaking" => vad'.potentialSilenceDurationMs = 0
        /\ (vad.state = "potential_end"
              /\ GT(StepFinal, vad.config.positiveSpeechThreshold))
             => /\ vad'.state = "speaking"
                /\ vad'.potentialSilenceDurationMs = 0
                /\ vad'.speechEndCandidateTime = 0
                /\ DeliversNothing
        /\ \A i \in NewEvents :
             vad'.delivered[i].type = "speech-end"
               => /\ vad.state = "potential_end"
                  /\ vad'.state = "silence"
                  /\ LT(StepFinal, vad.config.negativeSpeechThreshold)
                  /\ SilenceHeardMs >= vad.config.silenceDuration]_vars

(* What the segmentation keeps between frames. *)
Segmentation(v) ==
  [state |-> v.state, speechStartTime |-> v.speechStartTime,
   potentialSpeechDurationMs |-> v.potentialSpeechDurationMs,
   potentialSilenceDurationMs |-> v.potentialSilenceDurationMs,
   speechStartBufferIndex |-> v.speechStartBufferIndex]

InBetween(v, probability) ==
  /\ ~GT(probability, v.config.positiveSpeechThreshold)
  /\ ~LT(probability, v.config.negativeSpeechThreshold)

(* C31 (as claimed): in PotentialStart a frame whose probability lies      *)
(* between the thresholds changes neither the state nor                    *)
(* potentialSpeechDuration, and a frame below negativeSpeechThreshold      *)
(* returns the engine to Silence with speechStartTime, both accumulators   *)
(* and the cut index cleared, without an event; the frames that follow it  *)
(* in the same process() call meet the engine as that frame left it.       *)
C31_PotentialStartHoldsOrAborts ==
  [][(Completes /\ hist'.last = <<>> /\ ~CompletesNoFrame
        /\ vad.state = "potential_start"
        /\ ~GT(Head(OwnProbabilities), vad.config.positiveSpeechThreshold))
     => LET first == Head(OwnProbabilities)
            after == IF InBetween(vad, first) THEN vad ELSE resetToSilence(vad)
            left == FrameByFrame(after, Tail(OwnProbabilities), vad'.lastTimestamp)
        IN /\ LT(first, vad.config.negativeSpeechThreshold)
                => /\ Segmentation(after).state = "silence"
                   /\ Segmentation(after).speechStartTime = 0
                   /\ Segmentation(after).potentialSpeechDurationMs = 0
                   /\ Segmentation(after).potentialSilenceDurationMs = 0
                   /\ Segmentation(after).speechStartBufferIndex = 0
           /\ Segmentation(vad') = Segmentation(left)
           /\ SpeechEvents(vad') = SpeechEvents(left)]_vars

(* The utterance is confirmed: speech-start emitted, speech-end not yet. *)
Confirmed(v) == v.state \in {"speaking", "potential_end"}

(* The frame buffer once this step's process() call, if one begins in it,  *)
(* has pushed its chunk.                                                   *)
BufferWithChunk ==
  IF CallsProcess
  THEN Append(vad.audioBuffer, Head(processingQueue).audioData)
  ELSE vad.audioBuffer

(* C32: the cut index is set on the transition into Speaking and does not  *)
(* change while the utterance is confirmed; in that time no chunk leaves   *)
(* the frame buffer and every chunk received is appended to it; a          *)
(* finalized segment is the concatenation of the buffer from the cut index *)
(* at finalize time, one gap-free stretch of the stream that ends with the *)
(* last sample received.                                                   *)
C32_SegmentIsBufferFromCutIndex ==
  [][/\ (~Confirmed(vad) /\ Confirmed(vad'))
          => /\ vad'.state = "speaking"
             /\ vad'.speechStartBufferIndex
                  = calculateSpeechStartBufferIndex(
                      [vad EXCEPT !.audioBuffer = BufferWithChunk])
     /\ (Confirmed(vad) /\ Confirmed(vad'))
          => /\ vad'.speechStartBufferIndex = vad.speechStartBufferIndex
             /\ vad'.audioBuffer = BufferWithChunk
     /\ \A i \in NewEvents :
          (vad'.delivered[i].type = "speech-end" /\ vad'.delivered[i].segment # <<>>)
            => LET audio == vad'.delivered[i].segment[1].audioData
               IN /\ audio = ConcatAll(SliceIdx(BufferWithChunk,
                                                vad.speechStartBufferIndex))
                  /\ Len(audio) = 1
                  /\ audio[1].lo + audio[1].n = ArrLen(hist'.consumed)]_vars

(* Silence finalized a segment of several chunks, and the cut index left  *)
(* the oldest chunks of the buffer out of it.                              *)
C32_Witness ==
  \E i \in EventsOf("speech-end") :
    /\ hist.cause[i].by = "process"
    /\ vad.delivered[i].segment # <<>>
    /\ vad.delivered[i].segment[1].audioData[1].lo > 0
    /\ vad.delivered[i].segment[1].audioData[1].n >= 4 * 320

(* C33 (as claimed): the recurrent state is handed to the oracle by        *)
(* exclusive transfer: the oracle call of a frame is given the state the   *)
(* previous frame's call returned, so under every interleaving of          *)
(* process() calls no two outstanding oracle calls hold the same state     *)
(* value, and no returned state is lost: from the zero state on, the state *)
(* the engine holds has advanced once for every frame whose call returned. *)
C33_RecurrentStateNeverShared ==
  /\ \A i, j \in DOMAIN inflight :
       i # j => inflight[i].stateIn # inflight[j].stateIn
  /\ vad.stateTensor = <<FramesFed - Len(inflight)>>

(* C34 (as claimed): over any sequence of process, flush, reset,           *)
(* updateConfig and close on one engine, the speech-start and speech-end   *)
(* events delivered alternate strictly, beginning with a speech-start.     *)
C34_StartsAndEndsAlternate ==
  \A i \in DOMAIN SpeechEvents(vad) :
    SpeechEvents(vad)[i] = IF i % 2 = 1 THEN "speech-start" ELSE "speech-end"

(* The samples process() has received since the call stamped t began,      *)
(* with the remainder that call found carried over from earlier calls.     *)
HeardSince(h, t) ==
  LET n == CHOOSE size \in capture.sizes : TRUE
      before == (t * SampleRate) \div 1000 - n
  IN ArrLen(h.consumed) - before + (before % frameSize)

Samples(ms) == (ms * SampleRate) \div 1000

(* C35 (as claimed): the duration accumulated toward minSpeechDuration     *)
(* since the engine entered PotentialStart, and toward silenceDuration     *)
(* since it entered PotentialEnd, never exceeds the duration of the audio  *)
(* received in that period, whatever the chunk size: the accumulator in    *)
(* either state is covered by the samples received, and when it has        *)
(* reached its threshold (speech confirmed, or the utterance ended by      *)
(* silence) at least that much audio has been received.                    *)
C35_AccumulatedWithinAudioReceived ==
  [][/\ vad'.state = "potential_start"
          => Samples(vad'.potentialSpeechDurationMs)
               <= HeardSince(hist', vad'.speechStartTime)
     /\ vad'.state = "potential_end"
          => Samples(vad'.potentialSilenceDurationMs)
               <= HeardSince(hist', vad'.speechEndCandidateTime)
     /\ (Completes /\ vad.state = "potential_start" /\ vad'.state = "speaking")
          => Samples(vad.config.minSpeechDuration)
               <= HeardSince(hist', vad.speechStartTime)
     /\ (Completes /\ vad.state = "potential_end" /\ Delivers("speech-end"))
          => Samples(vad.config.silenceDuration)
               <= HeardSince(hist', vad.speechEndCandidateTime)]_vars

(* C36 (as claimed): however start() and stop() interleave, also when      *)
(* stop() is called while start() is still waiting for the permission, the *)
(* device or the VAD, once every call has settled and the state is idle    *)
(* the capture is inactive, so that no 'audio' event follows.              *)
C36_IdleMeansNotCapturing ==
  (rta.pending = <<>> /\ rta.state = "idle") => ~rta.isCapturing

(* The oracle sessions created by AudioProcessor.initialize() and not      *)
(* released.                                                               *)
Unreleased(r) == r.sessions.created - r.sessions.released

(* C37 (as claimed): after any sequence of start, stop, updateConfig and   *)
(* destroy, at most one session created by AudioProcessor.initialize() is  *)
(* unreleased, the current one, and when destroy() has run to its end none *)
(* is.                                                                     *)
C37_AtMostOneSessionUnreleased ==
  [][/\ Unreleased(rta') <= 1
     /\ (~rta.destroyed /\ rta'.destroyed) => Unreleased(rta') = 0]_vars

(* deviceManager's 'device-unplugged' is handled in this step. *)
Unplugs == rta'.unplugged = rta.unplugged + 1

(* A device switch, asked for by setDevice() or by the auto-switch,        *)
(* completes successfully in this step.                                    *)
SwitchSucceeds ==
  \E i \in DOMAIN rta.pending :
    /\ rta.pending[i].op \in SwitchCallers
    /\ rta.pending[i].pc \in {"idle", "switching"}
    /\ rta'.pending = Resumed(rta, i).pending
    /\ rta'.settled = <<[result |-> "resolved", code |-> "",
                         deviceId |-> rta.pending[i].device[1]]>>

(* C38: while recording with autoSwitchDevice enabled, the retry counter   *)
(* never exceeds MAX_DEVICE_SWITCH_RETRIES (3); a device-unplugged event   *)
(* below the limit counts one attempt and starts it; once the counter has  *)
(* reached the limit a further device-unplugged event starts no attempt    *)
(* and reports an error; the counter changes in no other way than by an    *)
(* attempt and by a successful switch, which resets it to 0.               *)
C38_AutoSwitchRetriesBounded ==
  [][/\ rta'.deviceSwitchRetryCount <= MAX_DEVICE_SWITCH_RETRIES
     /\ (Unplugs /\ rta.autoSwitchDevice /\ rta.state = "recording")
          => IF rta.deviceSwitchRetryCount >= MAX_DEVICE_SWITCH_RETRIES
             THEN /\ rta'.pending = rta.pending
                  /\ rta'.deviceSwitchRetryCount = rta.deviceSwitchRetryCount
                  /\ rta'.isSwitchingDevice = rta.isSwitchingDevice
                  /\ rta'.isCapturing = rta.isCapturing
                  /\ rta'.state = "error"
                  /\ rta'.events = [n |-> rta.events.n + 1, last |-> <<"error">>]
             ELSE /\ rta'.deviceSwitchRetryCount = rta.deviceSwitchRetryCount + 1
                  /\ rta'.pending
                       = Append(rta.pending,
                                PendingCall("autoSwitch", "default", FALSE, <<>>, <<>>))
     /\ SwitchSucceeds => rta'.deviceSwitchRetryCount = 0
     /\ rta'.deviceSwitchRetryCount # rta.deviceSwitchRetryCount
          => \/ Unplugs /\ rta'.deviceSwitchRetryCount = rta.deviceSwitchRetryCount + 1
             \/ SwitchSucceeds /\ rta'.deviceSwitchRetryCount = 0]_vars

(* Three attempts were counted with no successful switch in between, a     *)
(* fourth device-unplugged event arrived while recording, and the only     *)
(* error reported is the one for the exceeded limit.                       *)
C38_Witness ==
  /\ rta.unplugged = 4
  /\ rta.deviceSwitchRetryCount = MAX_DEVICE_SWITCH_RETRIES
  /\ rta.state = "error"
  /\ rta.events = [n |-> 2, last |-> <<"error">>]
  /\ rta.change = <<[op |-> "device-unplugged", from |-> "recording", to |-> "error"]>>

(* C39: at most one device switch is in progress at a time, and            *)
(* isSwitchingDevice is set exactly while one is; a setDevice() call made  *)
(* while a switch is in flight returns without switching; the flag is      *)
(* cleared when the switch finishes, by success or by an error, so that a  *)
(* switch in progress always comes to an end and a later setDevice() is    *)
(* not blocked forever.                                                    *)
C39_OneSwitchAtATime ==
  /\ [](/\ Cardinality(SwitchPending(rta)) <= 1
        /\ rta.isSwitchingDevice <=> SwitchPending(rta) # {})
  /\ [][(rta'.nCalls = rta.nCalls + 1 /\ rta.isSwitchingDevice)
          => rta' = Called(rta)]_vars
  /\ (rta.isSwitchingDevice ~> ~rta.isSwitchingDevice)

(* A second setDevice() was called before the first switch had settled:    *)
(* one switch is in progress, the second call has returned.                *)
C39_Witness ==
  /\ rta.isSwitchingDevice
  /\ rta.nCalls = 2
  /\ Len(rta.pending) = 1
  /\ rta.settled = <<>>

(* C40 (as claimed): a listener registered with once() is invoked for at   *)
(* most one emission of its event and is unregistered afterwards, also     *)
(* when it throws during that invocation: while it is registered it has    *)
(* not been invoked, and once removed it has been invoked exactly once.    *)
C40_OnceListenerRunsOnce ==
  \A i \in DOMAIN vad.listeners :
    /\ vad.listeners[i] \in OnceKinds => vad.invoked[i] = 0
    /\ vad.listeners[i] = "off" => vad.invoked[i] = 1
====
